---- MODULE Spec2Model ----
(***************************************************************************)
(* Verification model of the sentiment analyzer (sentiment_analyzer.py).   *)
(*                                                                         *)
(* Text is a sequence of one-character strings.  Scores are integers in    *)
(* thousandths (0.3 is 300).  The combined score, the averages and the     *)
(* un-rounded confidence are exact rationals [n |-> numerator, d |->       *)
(* denominator]; Python computes them in binary floating point, whose      *)
(* rounding error (about 1e-16) is not modelled.                            *)
(***************************************************************************)
EXTENDS Integers, Sequences, FiniteSets, TLC

VARIABLES sia, lemmatizer, stop_words, calls, batch, frame, threads, responses

vars == <<sia, lemmatizer, stop_words, calls, batch, frame, threads, responses>>

----------------------------------------------------------------------------
(* Bounds of the model.                                                    *)

MaxNegFrags == 3
MaxPosFrags == 4
MaxSentences == 2
MaxCalls == 3
MaxBatch == 2
MaxCompound == 60
MaxThreads == 2
MaxRequests == 2
MaxLoop == 4
MaxFrags == 3

----------------------------------------------------------------------------
(* Strings.                                                                *)

Uppers == <<"A","B","C","D","E","F","G","H","I","J","K","L","M",
            "N","O","P","Q","R","S","T","U","V","W","X","Y","Z">>
Lowers == <<"a","b","c","d","e","f","g","h","i","j","k","l","m",
            "n","o","p","q","r","s","t","u","v","w","x","y","z">>

\* str.lower() on one character
LowerChar(c) ==
  IF \E i \in 1..Len(Uppers) : Uppers[i] = c
  THEN Lowers[CHOOSE i \in 1..Len(Uppers) : Uppers[i] = c]
  ELSE c

\* str.lower()
Lower(s) == [i \in 1..Len(s) |-> LowerChar(s[i])]

\* the Python test `phrase in text` (substring containment)
Contains(phrase, text) ==
  \E i \in 1..(Len(text) - Len(phrase) + 1) :
     SubSeq(text, i, i + Len(phrase) - 1) = phrase

----------------------------------------------------------------------------
(* The curated phrase lists of classify_overall_sentiment.                 *)

\* 80 entries
strong_negative_phrases ==
  << <<"r","u","b","b","i","s","h">>,
     <<"u","t","t","e","r"," ","r","u","b","b","i","s","h">>,
     <<"c","o","m","p","l","e","t","e"," ","r","u","b","b","i","s","h">>,
     <<"t","o","t","a","l"," ","r","u","b","b","i","s","h">>,
     <<"h","o","p","e","l","e","s","s">>,
     <<"c","o","m","p","l","e","t","e","l","y"," ","h","o","p","e","l","e","s","s">>,
     <<"u","t","t","e","r","l","y"," ","h","o","p","e","l","e","s","s">>,
     <<"w","a","s","t","e"," ","o","f">>,
     <<"w","a","s","t","e"," ","o","f"," ","t","i","m","e">>,
     <<"w","a","s","t","e"," ","o","f"," ","m","o","n","e","y">>,
     <<"w","a","s","t","e"," ","o","f"," ","f","i","l","m">>,
     <<"t","e","r","r","i","b","l","e">>,
     <<"h","o","r","r","i","b","l","e">>,
     <<"a","w","f","u","l">>,
     <<"d","r","e","a","d","f","u","l">>,
     <<"a","t","r","o","c","i","o","u","s">>,
     <<"e","r","r","o","r"," ","o","f"," ","j","u","d","g","m","e","n","t">>,
     <<"h","u","g","e"," ","e","r","r","o","r">>,
     <<"b","i","g"," ","m","i","s","t","a","k","e">>,
     <<"d","i","s","a","s","t","e","r">>,
     <<"p","a","t","h","e","t","i","c">>,
     <<"a","b","y","s","m","a","l">>,
     <<"a","p","p","a","l","l","i","n","g">>,
     <<"d","i","s","g","r","a","c","e","f","u","l">>,
     <<"s","h","o","u","l","d"," ","h","a","n","d"," ","i","n">>,
     <<"s","h","o","u","l","d"," ","r","e","s","i","g","n">>,
     <<"s","h","o","u","l","d"," ","q","u","i","t">>,
     <<"u","n","a","c","c","e","p","t","a","b","l","e">>,
     <<"i","n","e","x","c","u","s","a","b","l","e">>,
     <<"u","n","f","o","r","g","i","v","a","b","l","e">>,
     <<"d","i","s","a","p","p","o","i","n","t","i","n","g">>,
     <<"d","i","s","a","p","p","o","i","n","t","e","d">>,
     <<"d","i","s","a","p","p","o","i","n","t","m","e","n","t">>,
     <<"b","i","t","t","e","r","l","y"," ","d","i","s","a","p","p","o","i","n","t","i","n","g">>,
     <<"h","u","g","e","l","y"," ","d","i","s","a","p","p","o","i","n","t","i","n","g">>,
     <<"l","e","t"," ","d","o","w","n">>,
     <<"l","e","t","d","o","w","n">>,
     <<"t","o"," ","m","y"," ","d","i","s","a","p","p","o","i","n","t","m","e","n","t">>,
     <<"w","h","a","t"," ","a"," ","d","i","s","a","p","p","o","i","n","t","m","e","n","t">>,
     <<"s","a","d"," ","s","i","g","h","t">>,
     <<"b","a","d"," ","i","m","i","t","a","t","i","o","n">>,
     <<"p","o","o","r"," ","i","m","i","t","a","t","i","o","n">>,
     <<"p","r","e","t","t","y"," ","w","e","a","k">>,
     <<"v","e","r","y"," ","w","e","a","k">>,
     <<"q","u","i","t","e"," ","w","e","a","k">>,
     <<"w","e","a","k"," ","s","t","o","r","y","l","i","n","e">>,
     <<"w","e","a","k"," ","p","l","o","t">>,
     <<"n","o","t"," ","v","e","r","y"," ","g","o","o","d">>,
     <<"n","o","t"," ","t","h","a","t"," ","g","o","o","d">>,
     <<"n","o","t"," ","s","o"," ","g","o","o","d">>,
     <<"i","s","n","t"," ","t","h","a","t"," ","g","o","o","d">>,
     <<"d","i","d","n","'","t"," ","l","a","u","g","h">>,
     <<"d","i","d","n","t"," ","l","a","u","g","h">>,
     <<"n","e","v","e","r"," ","l","a","u","g","h","e","d">>,
     <<"b","o","r","i","n","g">>,
     <<"t","e","d","i","o","u","s">>,
     <<"d","u","l","l">>,
     <<"b","l","a","n","d">>,
     <<"m","e","d","i","o","c","r","e">>,
     <<"f","o","r","g","e","t","t","a","b","l","e">>,
     <<"w","o","u","l","d","n","'","t"," ","r","e","c","o","m","m","e","n","d">>,
     <<"w","o","u","l","d"," ","n","o","t"," ","r","e","c","o","m","m","e","n","d">>,
     <<"c","a","n","n","o","t"," ","r","e","c","o","m","m","e","n","d">>,
     <<"d","o","n","'","t"," ","b","o","t","h","e","r">>,
     <<"d","o","n","t"," ","b","o","t","h","e","r">>,
     <<"s","k","i","p"," ","t","h","i","s">>,
     <<"a","v","o","i","d"," ","t","h","i","s">>,
     <<"n","o","t"," ","w","o","r","t","h">>,
     <<"w","a","s","t","e"," ","y","o","u","r"," ","t","i","m","e">>,
     <<"s","a","v","e"," ","y","o","u","r"," ","m","o","n","e","y">>,
     <<"f","a","i","l","s"," ","t","o">>,
     <<"f","a","i","l","e","d"," ","t","o">>,
     <<"l","a","c","k","s">>,
     <<"l","a","c","k","i","n","g">>,
     <<"w","o","r","s","e"," ","t","h","a","n">>,
     <<"i","n","f","e","r","i","o","r"," ","t","o">>,
     <<"p","a","l","e","s"," ","i","n"," ","c","o","m","p","a","r","i","s","o","n">>,
     <<"n","o","t","h","i","n","g"," ","l","i","k","e">>,
     <<"f","a","r"," ","f","r","o","m">>,
     <<"f","a","l","l","s"," ","s","h","o","r","t">> >>

\* 22 entries
strong_positive_phrases ==
  << <<"e","x","c","e","l","l","e","n","t">>,
     <<"o","u","t","s","t","a","n","d","i","n","g">>,
     <<"b","r","i","l","l","i","a","n","t">>,
     <<"f","a","n","t","a","s","t","i","c">>,
     <<"a","m","a","z","i","n","g">>,
     <<"m","a","s","t","e","r","p","i","e","c","e">>,
     <<"i","n","c","r","e","d","i","b","l","e">>,
     <<"s","u","p","e","r","b">>,
     <<"p","h","e","n","o","m","e","n","a","l">>,
     <<"e","x","t","r","a","o","r","d","i","n","a","r","y">>,
     <<"h","i","g","h","l","y"," ","r","e","c","o","m","m","e","n","d">>,
     <<"m","u","s","t"," ","s","e","e">>,
     <<"m","u","s","t"," ","w","a","t","c","h">>,
     <<"l","o","v","e","d"," ","i","t">>,
     <<"l","o","v","e"," ","i","t">>,
     <<"b","e","s","t"," ","e","v","e","r">>,
     <<"b","e","s","t"," ","m","o","v","i","e">>,
     <<"b","e","s","t"," ","f","i","l","m">>,
     <<"t","h","o","r","o","u","g","h","l","y"," ","e","n","j","o","y","e","d">>,
     <<"b","l","o","w","n"," ","a","w","a","y">>,
     <<"e","x","c","e","e","d","e","d"," ","e","x","p","e","c","t","a","t","i","o","n","s">>,
     <<"p","l","e","a","s","a","n","t","l","y"," ","s","u","r","p","r","i","s","e","d">> >>

\* 10 entries
hope_disappointment_patterns ==
  << <<"h","o","p","i","n","g">>,
     <<"h","o","p","e","d">>,
     <<"e","x","p","e","c","t","e","d">>,
     <<"e","x","p","e","c","t","i","n","g">>,
     <<"w","a","n","t","e","d">>,
     <<"w","i","s","h","e","d">>,
     <<"t","h","o","u","g","h","t"," ","i","t"," ","w","o","u","l","d">>,
     <<"s","h","o","u","l","d"," ","h","a","v","e"," ","b","e","e","n">>,
     <<"c","o","u","l","d"," ","h","a","v","e"," ","b","e","e","n">>,
     <<"w","a","s"," ","s","u","p","p","o","s","e","d"," ","t","o">> >>

----------------------------------------------------------------------------
(* The texts and classifier inputs of the model.                           *)

\* "I was Hoping for an Excellent film but what a disappointment."
DocHope ==
  <<"I"," ","w","a","s"," ","H","o","p","i","n","g"," ","f","o","r"," ","a",
    "n"," ","E","x","c","e","l","l","e","n","t"," ","f","i","l","m"," ","b",
    "u","t"," ","w","h","a","t"," ","a"," ","d","i","s","a","p","p","o","i",
    "n","t","m","e","n","t",".">>

\* "The films were fine. Utter rubbish! see http://x.y"
DocRubbish ==
  <<"T","h","e"," ","f","i","l","m","s"," ","w","e","r","e"," ","f","i","n",
    "e","."," ","U","t","t","e","r"," ","r","u","b","b","i","s","h","!"," ",
    "s","e","e"," ","h","t","t","p",":","/","/","x",".","y">>

\* "Superb, amazing movies?  Mail a@b.c"
DocPraise ==
  <<"S","u","p","e","r","b",","," ","a","m","a","z","i","n","g"," ","m","o",
    "v","i","e","s","?"," "," ","M","a","i","l"," ","a","@","b",".","c">>

\* "I was Hoping for "
HopeFrag ==
  <<"I"," ","w","a","s"," ","H","o","p","i","n","g"," ","f","o","r"," ">>

\* "what a DISAPPOINTMENT"
DisappointmentFrag ==
  <<"w","h","a","t"," ","a"," ","D","I","S","A","P","P","O","I","N","T","M",
    "E","N","T">>

\* fragments that each match exactly one strong-negative phrase
NegFrags ==
  << <<"p","a","t","h","e","t","i","c"," ">>,
     <<"b","o","r","i","n","g"," ">>,
     <<"a","w","f","u","l"," ">>,
     <<"d","r","e","a","d","f","u","l"," ">>,
     <<"t","e","d","i","o","u","s"," ">>,
     <<"b","l","a","n","d"," ">> >>

\* fragments that each match exactly one strong-positive phrase
PosFrags ==
  << <<"E","x","c","e","l","l","e","n","t"," ">>,
     <<"s","u","p","e","r","b"," ">>,
     <<"a","m","a","z","i","n","g"," ">>,
     <<"b","r","i","l","l","i","a","n","t"," ">>,
     <<"f","a","n","t","a","s","t","i","c"," ">>,
     <<"i","n","c","r","e","d","i","b","l","e"," ">> >>

\* the documents callers analyze
Docs == {<<>>, DocHope, DocRubbish, DocPraise}

RECURSIVE Concat(_)
Concat(ss) == IF ss = <<>> THEN <<>> ELSE Head(ss) \o Concat(Tail(ss))

\* a review text: an optional expectation phrase, j positive fragments,
\* i negative fragments, an optional "what a DISAPPOINTMENT"
ReviewText(h, j, i, d) ==
  (IF h THEN HopeFrag ELSE <<>>)
  \o Concat(SubSeq(PosFrags, 1, j)) \o Concat(SubSeq(NegFrags, 1, i))
  \o (IF d THEN DisappointmentFrag ELSE <<>>)

ReviewTexts ==
  {ReviewText(h, j, i, d) : h \in BOOLEAN, j \in 0..MaxPosFrags,
                            i \in 0..MaxNegFrags, d \in BOOLEAN}

\* compound and polarity scores, in thousandths
CompoundValues == {-1000, 0, 1, 299, 1000}

PolarityValues == {-1000, 0, 1000}

\* sentence records: a label and a confidence in thousandths
SentenceRecords ==
  [sentence : {<<>>}, sentiment : {"positive", "negative"}, confidence : {400, 1000}]
  \cup [sentence : {<<>>}, sentiment : {"neutral"}, confidence : {0}]

RECURSIVE SeqsUpTo(_, _)
SeqsUpTo(S, n) ==
  IF n = 0 THEN {<<>>}
  ELSE LET shorter == SeqsUpTo(S, n - 1)
       IN  shorter \cup {Append(s, x) : s \in {t \in shorter : Len(t) = n - 1}, x \in S}

\* the arguments of one classify_overall_sentiment call
ClassifyInputs ==
  [ called : {FALSE},
    text : ReviewTexts,
    compound : CompoundValues,
    polarity : PolarityValues,
    sentence_sentiments : SeqsUpTo(SentenceRecords, MaxSentences) ]

\* " Fine. " and "ok"
Sentences == {<<" ","F","i","n","e","."," ">>, <<"o","k">>}

\* the compound scores of a sentence, in thousandths: round(x, 3) of a
\* score in [-1, 1]; the model takes those within MaxCompound of zero
SentenceCompounds == -MaxCompound..MaxCompound

\* the sentence and the scores of one turn of the sentence loop
SentenceInputs ==
  [ called : {FALSE},
    sentence : Sentences,
    sent_scores : [compound : SentenceCompounds] ]

\* the arguments of a call near the classification thresholds: texts with
\* keywords only, scores that put the combined score at 0.12 and at -0.08,
\* and sentence confidences at and above the 0.3 of the tie-break
CascadeTexts ==
  {ReviewText(FALSE, j, i, FALSE) : j \in 0..MaxPosFrags, i \in 0..MaxNegFrags}

CascadeCompounds == {-1000, 0, 400, 1000}

CascadePolarities == {-1000, -800, 0, 1000}

CascadeRecords ==
  [sentence : {<<>>}, sentiment : {"positive", "negative"}, confidence : {300, 400}]
  \cup [sentence : {<<>>}, sentiment : {"neutral"}, confidence : {0}]

CascadeInputs ==
  [ called : {FALSE},
    text : CascadeTexts,
    compound : CascadeCompounds,
    polarity : CascadePolarities,
    sentence_sentiments : SeqsUpTo(CascadeRecords, MaxSentences) ]

\* the arguments of a call with up to MaxLoop sentence records, of
\* confidence 0.5 and 1.0: enough for two negative and two positive ones
IntensityRecords ==
  [sentence : {<<>>}, sentiment : {"positive", "negative"}, confidence : {500, 1000}]
  \cup [sentence : {<<>>}, sentiment : {"neutral"}, confidence : {0}]

IntensityInputs ==
  [ called : {FALSE},
    text : {<<>>},
    compound : {0, 1000},
    polarity : {0},
    sentence_sentiments : SeqsUpTo(IntensityRecords, MaxLoop) ]

\* the endings of a text of the expectation rule: none, "disappointing"
\* (which does not hold the word of the rule), the word alone, and the word
\* inside the phrases "to my disappointment" and "what a DISAPPOINTMENT"
ExpectationEndings ==
  { <<>>,
    <<"d","i","s","a","p","p","o","i","n","t","i","n","g">>,
    <<"a"," ","d","i","s","a","p","p","o","i","n","t","m","e","n","t",".">>,
    <<"t","o"," ","m","y"," ","d","i","s","a","p","p","o","i","n","t","m","e","n","t">>,
    DisappointmentFrag }

\* a text of the expectation rule: one of the ten patterns or none, j
\* positive fragments, an ending
ExpectationTexts ==
  { (IF h = 0 THEN <<>> ELSE hope_disappointment_patterns[h] \o <<" ">>)
      \o Concat(SubSeq(PosFrags, 1, j)) \o e :
    h \in 0..Len(hope_disappointment_patterns), j \in 0..MaxPosFrags,
    e \in ExpectationEndings }

ExpectationCompounds == {-1000, 0, 1000}

ExpectationPolarities == {-1000, -400, 0, 1000}

ExpectationRecords ==
  [sentence : {<<>>}, sentiment : {"positive", "negative"}, confidence : {1000}]
  \cup [sentence : {<<>>}, sentiment : {"neutral"}, confidence : {0}]

\* the arguments of a call on a text of the expectation rule
ExpectationInputs ==
  [ called : {FALSE},
    text : ExpectationTexts,
    compound : ExpectationCompounds,
    polarity : ExpectationPolarities,
    sentence_sentiments : SeqsUpTo(ExpectationRecords, MaxSentences) ]

\* pieces of raw text: "The ", "Films ", "HTTP://X.Y ", "www.a.b ", "www ",
\* "Mail a@B.c ", "3D!! ", " \n", "it's ", "ok?...fine "
TextFrags ==
  << <<"T","h","e"," ">>,
     <<"F","i","l","m","s"," ">>,
     <<"H","T","T","P",":","/","/","X",".","Y"," ">>,
     <<"w","w","w",".","a",".","b"," ">>,
     <<"w","w","w"," ">>,
     <<"M","a","i","l"," ","a","@","B",".","c"," ">>,
     <<"3","D","!","!"," ">>,
     <<" ","\n">>,
     <<"i","t","'","s"," ">>,
     <<"o","k","?",".",".",".","f","i","n","e"," ">> >>

\* the raw texts preprocess_text is applied to: up to MaxFrags pieces
RawTexts ==
  {Concat([i \in 1..Len(js) |-> TextFrags[js[i]]]) :
     js \in SeqsUpTo(1..Len(TextFrags), MaxFrags)}

PreprocessInputs == [called : {FALSE}, text : RawTexts]

NoFrame == [called |-> FALSE]

NoBatch == [called |-> FALSE, texts |-> <<>>, results |-> <<>>]

\* the threads that call get_detailed_analysis on the one shared analyzer
Threads == 1..MaxThreads

\* a local variable no statement has assigned yet
Unbound == [unbound |-> TRUE]

\* the frame of a thread: its position in get_detailed_analysis and the
\* locals of lines 336-361; concurrent records that the thread took a step
\* while another thread was inside the function
Frame(pc, text) ==
  [ pc |-> pc, text |-> text, pre |-> Unbound, vader_scores |-> Unbound,
    textblob_scores |-> Unbound, sentences |-> Unbound,
    sentence_sentiments |-> Unbound, cls |-> Unbound, result |-> Unbound,
    concurrent |-> FALSE ]

NoThreads == [t \in Threads |-> Frame("idle", <<>>)]

\* no request has been handled yet
NoResponses == [handled |-> 0]

----------------------------------------------------------------------------
(* Exact arithmetic standing for Python's float arithmetic.                *)

Abs(x) == IF x < 0 THEN -x ELSE x

Min(a, b) == IF a < b THEN a ELSE b

Max(a, b) == IF a > b THEN a ELSE b

RECURSIVE GCD(_, _)
GCD(a, b) == IF b = 0 THEN a ELSE GCD(b, a % b)

\* the rational n/d in lowest terms, d > 0
Rat(n, d) ==
  LET g == GCD(Abs(n), Abs(d))
      s == IF d < 0 THEN -1 ELSE 1
  IN  [n |-> s * (n \div g), d |-> s * (d \div g)]

LCM(a, b) == (a \div GCD(a, b)) * b

RAdd(x, y) ==
  LET l == LCM(x.d, y.d)
  IN  Rat(x.n * (l \div x.d) + y.n * (l \div y.d), l)

RNeg(x) == [n |-> -x.n, d |-> x.d]

RSub(x, y) == RAdd(x, RNeg(y))

RMul(x, y) == Rat(x.n * y.n, x.d * y.d)

RAbs(x) == [n |-> Abs(x.n), d |-> x.d]

RLe(x, y) == RSub(x, y).n <= 0

RLt(x, y) == RSub(x, y).n < 0

RMin(x, y) == IF RLe(x, y) THEN x ELSE y

Zero == Rat(0, 1)

One == Rat(1, 1)

\* a score given in thousandths, as a rational
Th(k) == Rat(k, 1000)

\* round(x, 3) for 0 <= x, as thousandths; an exact tie goes to the even
\* neighbour.  Long division, one decimal digit at a time.
Round3(x) ==
  LET ip == x.n \div x.d
      r0 == x.n % x.d
      d1 == (10 * r0) \div x.d
      r1 == (10 * r0) % x.d
      d2 == (10 * r1) \div x.d
      r2 == (10 * r1) % x.d
      d3 == (10 * r2) \div x.d
      r3 == (10 * r2) % x.d
      q  == 1000 * ip + 100 * d1 + 10 * d2 + d3
  IN  IF 2 * r3 < x.d THEN q
      ELSE IF 2 * r3 > x.d THEN q + 1
      ELSE IF q % 2 = 0 THEN q ELSE q + 1

----------------------------------------------------------------------------
(* classify_overall_sentiment, sentiment_analyzer.py lines 156-323.        *)

\* sum(1 for phrase in phrases if phrase in text_lower)
CountMatches(phrases, text_lower) ==
  Cardinality({i \in 1..Len(phrases) : Contains(phrases[i], text_lower)})

\* any(pattern in text_lower for pattern in hope_disappointment_patterns)
HasHopeDisappointment(text_lower) ==
  \E i \in 1..Len(hope_disappointment_patterns) :
     Contains(hope_disappointment_patterns[i], text_lower)

disappointment == <<"d","i","s","a","p","p","o","i","n","t","m","e","n","t">>

\* KeywordCounts with the rule taking 1 instead of 2 off the positive count
KeywordCountsMinusOne(text) ==
  LET text_lower == IF text # <<>> THEN Lower(text) ELSE <<>>
      raw_neg    == CountMatches(strong_negative_phrases, text_lower)
      raw_pos    == CountMatches(strong_positive_phrases, text_lower)
      hope       == HasHopeDisappointment(text_lower)
      fires      == hope /\ Contains(disappointment, text_lower)
  IN  [ raw_negative |-> raw_neg,
        raw_positive |-> raw_pos,
        has_hope_disappointment |-> hope,
        has_disappointment |-> Contains(disappointment, text_lower),
        expectation_adjusted |-> fires,
        negative_keyword_count |-> IF fires THEN raw_neg + 1 ELSE raw_neg,
        positive_keyword_count |-> IF fires THEN Max(0, raw_pos - 1) ELSE raw_pos ]

\* KeywordCounts without the floor max(0, ...) on the positive count
KeywordCountsNoFloor(text) ==
  LET text_lower == IF text # <<>> THEN Lower(text) ELSE <<>>
      raw_neg    == CountMatches(strong_negative_phrases, text_lower)
      raw_pos    == CountMatches(strong_positive_phrases, text_lower)
      hope       == HasHopeDisappointment(text_lower)
      fires      == hope /\ Contains(disappointment, text_lower)
  IN  [ raw_negative |-> raw_neg,
        raw_positive |-> raw_pos,
        has_hope_disappointment |-> hope,
        has_disappointment |-> Contains(disappointment, text_lower),
        expectation_adjusted |-> fires,
        negative_keyword_count |-> IF fires THEN raw_neg + 1 ELSE raw_neg,
        positive_keyword_count |-> IF fires THEN raw_pos - 2 ELSE raw_pos ]

\* KeywordCounts with a rule that leaves the negative count as it is
KeywordCountsNoIncrement(text) ==
  LET text_lower == IF text # <<>> THEN Lower(text) ELSE <<>>
      raw_neg    == CountMatches(strong_negative_phrases, text_lower)
      raw_pos    == CountMatches(strong_positive_phrases, text_lower)
      hope       == HasHopeDisappointment(text_lower)
      fires      == hope /\ Contains(disappointment, text_lower)
  IN  [ raw_negative |-> raw_neg,
        raw_positive |-> raw_pos,
        has_hope_disappointment |-> hope,
        has_disappointment |-> Contains(disappointment, text_lower),
        expectation_adjusted |-> fires,
        negative_keyword_count |-> raw_neg,
        positive_keyword_count |-> IF fires THEN Max(0, raw_pos - 2) ELSE raw_pos ]

\* the keyword signal of a text: raw counts, then the hope-disappointment
\* rule (lines 227-238)
KeywordCounts(text) ==
  LET text_lower == IF text # <<>> THEN Lower(text) ELSE <<>>
      raw_neg    == CountMatches(strong_negative_phrases, text_lower)
      raw_pos    == CountMatches(strong_positive_phrases, text_lower)
      hope       == HasHopeDisappointment(text_lower)
      fires      == hope /\ Contains(disappointment, text_lower)
  IN  [ raw_negative |-> raw_neg,
        raw_positive |-> raw_pos,
        has_hope_disappointment |-> hope,
        has_disappointment |-> Contains(disappointment, text_lower),
        expectation_adjusted |-> fires,
        negative_keyword_count |-> IF fires THEN raw_neg + 1 ELSE raw_neg,
        positive_keyword_count |-> IF fires THEN Max(0, raw_pos - 2) ELSE raw_pos ]

\* KeywordCounts of every text of the model, computed once
KeywordMemo ==
  [t \in Docs \cup ReviewTexts \cup ExpectationTexts |-> KeywordCounts(t)] @@ <<>>

\* lines 227-238 on the text of a call
KeywordSignal(text) ==
  IF text \in DOMAIN KeywordMemo THEN KeywordMemo[text] ELSE KeywordCounts(text)

\* KeywordAdjustment with the sign of the negative branch lost
KeywordAdjustmentSignSlip(negative_keyword_count, positive_keyword_count) ==
  IF negative_keyword_count > positive_keyword_count
  THEN Rat(Min(negative_keyword_count, 3), 10)
  ELSE IF positive_keyword_count > negative_keyword_count
  THEN Rat(Min(positive_keyword_count, 3), 10)
  ELSE Zero

\* KeywordAdjustment without the cap min(..., 3)
KeywordAdjustmentUncapped(negative_keyword_count, positive_keyword_count) ==
  IF negative_keyword_count > positive_keyword_count
  THEN Rat(-1 * negative_keyword_count, 10)
  ELSE IF positive_keyword_count > negative_keyword_count
  THEN Rat(positive_keyword_count, 10)
  ELSE Zero

\* lines 240-245
KeywordAdjustment(negative_keyword_count, positive_keyword_count) ==
  IF negative_keyword_count > positive_keyword_count
  THEN Rat(-1 * Min(negative_keyword_count, 3), 10)
  ELSE IF positive_keyword_count > negative_keyword_count
  THEN Rat(Min(positive_keyword_count, 3), 10)
  ELSE Zero

\* the loop of lines 254-262: number of records with the given label
CountLabel(sentence_sentiments, label) ==
  Cardinality({i \in 1..Len(sentence_sentiments) :
                 sentence_sentiments[i].sentiment = label})

\* the loop of lines 254-262: summed confidence (thousandths) of the
\* records with the given label
RECURSIVE IntensitySum(_, _)
IntensitySum(sentence_sentiments, label) ==
  IF sentence_sentiments = <<>> THEN 0
  ELSE (IF Head(sentence_sentiments).sentiment = label
        THEN Head(sentence_sentiments).confidence ELSE 0)
       + IntensitySum(Tail(sentence_sentiments), label)

\* SentenceBalance normalised by the positive count alone
SentenceBalanceOverPositive(positive_count, negative_count) ==
  IF positive_count > 0
  THEN Rat(positive_count - negative_count, positive_count)
  ELSE Zero

\* lines 266-270
SentenceBalance(positive_count, negative_count) ==
  IF positive_count + negative_count > 0
  THEN Rat(positive_count - negative_count, positive_count + negative_count)
  ELSE Zero

\* lines 273-274
AvgIntensity(intensity_sum, count) ==
  IF count > 0 THEN Rat(intensity_sum, 1000 * count) ELSE Zero

\* IntensityAdjustment that tries the positive branch first
IntensityAdjustmentPositiveFirst(avg_negative_intensity, negative_count, avg_positive_intensity, positive_count) ==
  IF RLt(Rat(1, 2), avg_positive_intensity) /\ positive_count >= 2
  THEN RMul(Rat(15, 100), RSub(avg_positive_intensity, Rat(1, 2)))
  ELSE IF RLt(Rat(1, 2), avg_negative_intensity) /\ negative_count >= 2
  THEN RMul(Rat(-15, 100), RSub(avg_negative_intensity, Rat(1, 2)))
  ELSE Zero

\* lines 277-281
IntensityAdjustment(avg_negative_intensity, negative_count, avg_positive_intensity, positive_count) ==
  IF RLt(Rat(1, 2), avg_negative_intensity) /\ negative_count >= 2
  THEN RMul(Rat(-15, 100), RSub(avg_negative_intensity, Rat(1, 2)))
  ELSE IF RLt(Rat(1, 2), avg_positive_intensity) /\ positive_count >= 2
  THEN RMul(Rat(15, 100), RSub(avg_positive_intensity, Rat(1, 2)))
  ELSE Zero

\* DisagreementBonus that also fires when the compound score is zero
DisagreementBonusNonStrict(compound, polarity) ==
  IF (compound >= 0 /\ polarity < 0) \/ (compound <= 0 /\ polarity > 0)
  THEN RMul(Th(polarity), Rat(10, 100))
  ELSE Zero

\* line 291: bonus weight for the polarity when the two scorers disagree
DisagreementBonus(compound, polarity) ==
  IF (compound > 0 /\ polarity < 0) \/ (compound < 0 /\ polarity > 0)
  THEN RMul(Th(polarity), Rat(10, 100))
  ELSE Zero

\* CombinedScore with the compound weight 3.0 instead of 0.30
CombinedScoreWeightSlip(compound, polarity, sentence_balance, keyword_adjustment, intensity_adjustment) ==
  RAdd(RAdd(RAdd(RAdd(RAdd(RMul(Th(compound), Rat(300, 100)),
                           RMul(Th(polarity), Rat(15, 100))),
                      RMul(sentence_balance, Rat(25, 100))),
                 keyword_adjustment),
            intensity_adjustment),
       DisagreementBonus(compound, polarity))

\* lines 284-292
CombinedScore(compound, polarity, sentence_balance, keyword_adjustment, intensity_adjustment) ==
  RAdd(RAdd(RAdd(RAdd(RAdd(RMul(Th(compound), Rat(30, 100)),
                           RMul(Th(polarity), Rat(15, 100))),
                      RMul(sentence_balance, Rat(25, 100))),
                 keyword_adjustment),
            intensity_adjustment),
       DisagreementBonus(compound, polarity))

\* Sentiment with strict comparisons at the two thresholds
SentimentStrictThresholds(combined_score, negative_keyword_count, positive_keyword_count, negative_count, positive_count, avg_negative_intensity, avg_positive_intensity) ==
  IF RLt(Rat(12, 100), combined_score) THEN "positive"
  ELSE IF RLt(combined_score, Rat(-8, 100)) THEN "negative"
  ELSE IF negative_keyword_count > positive_keyword_count THEN "negative"
  ELSE IF positive_keyword_count > negative_keyword_count THEN "positive"
  ELSE IF negative_count > positive_count
          /\ RLt(Rat(3, 10), avg_negative_intensity) THEN "negative"
  ELSE IF positive_count > negative_count
          /\ RLt(Rat(3, 10), avg_positive_intensity) THEN "positive"
  ELSE "neutral"

\* Sentiment whose tie-break looks at the sentences before the keywords
SentimentSentencesFirst(combined_score, negative_keyword_count, positive_keyword_count, negative_count, positive_count, avg_negative_intensity, avg_positive_intensity) ==
  IF RLe(Rat(12, 100), combined_score) THEN "positive"
  ELSE IF RLe(combined_score, Rat(-8, 100)) THEN "negative"
  ELSE IF negative_count > positive_count
          /\ RLt(Rat(3, 10), avg_negative_intensity) THEN "negative"
  ELSE IF positive_count > negative_count
          /\ RLt(Rat(3, 10), avg_positive_intensity) THEN "positive"
  ELSE IF negative_keyword_count > positive_keyword_count THEN "negative"
  ELSE IF positive_keyword_count > negative_keyword_count THEN "positive"
  ELSE "neutral"

\* Sentiment with >= for > in the first keyword comparison of the tie-break
SentimentTieGoesNegative(combined_score, negative_keyword_count, positive_keyword_count, negative_count, positive_count, avg_negative_intensity, avg_positive_intensity) ==
  IF RLe(Rat(12, 100), combined_score) THEN "positive"
  ELSE IF RLe(combined_score, Rat(-8, 100)) THEN "negative"
  ELSE IF negative_keyword_count >= positive_keyword_count THEN "negative"
  ELSE IF positive_keyword_count > negative_keyword_count THEN "positive"
  ELSE IF negative_count > positive_count
          /\ RLt(Rat(3, 10), avg_negative_intensity) THEN "negative"
  ELSE IF positive_count > negative_count
          /\ RLt(Rat(3, 10), avg_positive_intensity) THEN "positive"
  ELSE "neutral"

\* Sentiment whose tie-break needs a keyword majority of two or more
SentimentKeywordNeedsMargin(combined_score, negative_keyword_count, positive_keyword_count, negative_count, positive_count, avg_negative_intensity, avg_positive_intensity) ==
  IF RLe(Rat(12, 100), combined_score) THEN "positive"
  ELSE IF RLe(combined_score, Rat(-8, 100)) THEN "negative"
  ELSE IF negative_keyword_count > positive_keyword_count + 1 THEN "negative"
  ELSE IF positive_keyword_count > negative_keyword_count + 1 THEN "positive"
  ELSE IF negative_count > positive_count
          /\ RLt(Rat(3, 10), avg_negative_intensity) THEN "negative"
  ELSE IF positive_count > negative_count
          /\ RLt(Rat(3, 10), avg_positive_intensity) THEN "positive"
  ELSE "neutral"

\* Sentiment that lets a keyword majority decide before the two thresholds
SentimentKeywordsFirst(combined_score, negative_keyword_count, positive_keyword_count, negative_count, positive_count, avg_negative_intensity, avg_positive_intensity) ==
  IF negative_keyword_count > positive_keyword_count THEN "negative"
  ELSE IF positive_keyword_count > negative_keyword_count THEN "positive"
  ELSE IF RLe(Rat(12, 100), combined_score) THEN "positive"
  ELSE IF RLe(combined_score, Rat(-8, 100)) THEN "negative"
  ELSE IF negative_count > positive_count
          /\ RLt(Rat(3, 10), avg_negative_intensity) THEN "negative"
  ELSE IF positive_count > negative_count
          /\ RLt(Rat(3, 10), avg_positive_intensity) THEN "positive"
  ELSE "neutral"

\* lines 294-311
Sentiment(combined_score, negative_keyword_count, positive_keyword_count, negative_count, positive_count, avg_negative_intensity, avg_positive_intensity) ==
  IF RLe(Rat(12, 100), combined_score) THEN "positive"
  ELSE IF RLe(combined_score, Rat(-8, 100)) THEN "negative"
  ELSE IF negative_keyword_count > positive_keyword_count THEN "negative"
  ELSE IF positive_keyword_count > negative_keyword_count THEN "positive"
  ELSE IF negative_count > positive_count
          /\ RLt(Rat(3, 10), avg_negative_intensity) THEN "negative"
  ELSE IF positive_count > negative_count
          /\ RLt(Rat(3, 10), avg_positive_intensity) THEN "positive"
  ELSE "neutral"

\* Confidence with the multiplicative boost applied before the additive one
ConfidenceMultiplyFirst(combined_score, negative_keyword_count, positive_keyword_count, compound, polarity, sentence_balance) ==
  LET c0 == RAbs(combined_score)
      c1 == IF (compound > 0 /\ polarity > 0 /\ sentence_balance.n > 0)
               \/ (compound < 0 /\ polarity < 0 /\ sentence_balance.n < 0)
            THEN RMin(RMul(c0, Rat(12, 10)), One) ELSE c0
      c2 == IF negative_keyword_count >= 2 \/ positive_keyword_count >= 2
            THEN RMin(RAdd(c1, Rat(2, 10)), One) ELSE c1
  IN  c2

\* Confidence with the additive boost not clamped to 1.0
ConfidenceUnclamped(combined_score, negative_keyword_count, positive_keyword_count, compound, polarity, sentence_balance) ==
  LET c0 == RAbs(combined_score)
      c1 == IF negative_keyword_count >= 2 \/ positive_keyword_count >= 2
            THEN RAdd(c0, Rat(2, 10)) ELSE c0
      c2 == IF (compound > 0 /\ polarity > 0 /\ sentence_balance.n > 0)
               \/ (compound < 0 /\ polarity < 0 /\ sentence_balance.n < 0)
            THEN RMin(RMul(c1, Rat(12, 10)), One) ELSE c1
  IN  c2

\* lines 313-321: the confidence before the final round(confidence, 3)
Confidence(combined_score, negative_keyword_count, positive_keyword_count, compound, polarity, sentence_balance) ==
  LET c0 == RAbs(combined_score)
      c1 == IF negative_keyword_count >= 2 \/ positive_keyword_count >= 2
            THEN RMin(RAdd(c0, Rat(2, 10)), One) ELSE c0
      c2 == IF (compound > 0 /\ polarity > 0 /\ sentence_balance.n > 0)
               \/ (compound < 0 /\ polarity < 0 /\ sentence_balance.n < 0)
            THEN RMin(RMul(c1, Rat(12, 10)), One) ELSE c1
  IN  c2

\* classify_overall_sentiment(vader_scores, textblob_scores,
\* sentence_sentiments, text): every local of the call; the function returns
\* (sentiment, confidence)
ClassifyOverallSentiment(vader_scores, textblob_scores, sentence_sentiments, text) ==
  LET compound == vader_scores.compound
      polarity == textblob_scores.polarity
      kw == KeywordSignal(text)
      keyword_adjustment ==
        KeywordAdjustment(kw.negative_keyword_count, kw.positive_keyword_count)
      positive_count == CountLabel(sentence_sentiments, "positive")
      negative_count == CountLabel(sentence_sentiments, "negative")
      neutral_count  == Len(sentence_sentiments) - positive_count - negative_count
      negative_intensity_sum == IntensitySum(sentence_sentiments, "negative")
      positive_intensity_sum == IntensitySum(sentence_sentiments, "positive")
      sentence_balance == SentenceBalance(positive_count, negative_count)
      avg_negative_intensity == AvgIntensity(negative_intensity_sum, negative_count)
      avg_positive_intensity == AvgIntensity(positive_intensity_sum, positive_count)
      intensity_adjustment ==
        IntensityAdjustment(avg_negative_intensity, negative_count,
                            avg_positive_intensity, positive_count)
      combined_score ==
        CombinedScore(compound, polarity, sentence_balance,
                      keyword_adjustment, intensity_adjustment)
      unrounded ==
        Confidence(combined_score, kw.negative_keyword_count,
                   kw.positive_keyword_count, compound, polarity, sentence_balance)
  IN  [ called |-> TRUE,
        text |-> text,
        compound |-> compound,
        polarity |-> polarity,
        sentence_sentiments |-> sentence_sentiments,
        kw |-> kw,
        negative_keyword_count |-> kw.negative_keyword_count,
        positive_keyword_count |-> kw.positive_keyword_count,
        keyword_adjustment |-> keyword_adjustment,
        positive_count |-> positive_count,
        negative_count |-> negative_count,
        neutral_count |-> neutral_count,
        sentence_balance |-> sentence_balance,
        avg_negative_intensity |-> avg_negative_intensity,
        avg_positive_intensity |-> avg_positive_intensity,
        intensity_adjustment |-> intensity_adjustment,
        combined_score |-> combined_score,
        unrounded_confidence |-> unrounded,
        sentiment |-> Sentiment(combined_score, kw.negative_keyword_count,
                                kw.positive_keyword_count, negative_count,
                                positive_count, avg_negative_intensity,
                                avg_positive_intensity),
        confidence |-> Round3(unrounded) ]

----------------------------------------------------------------------------
(* String helpers of the preprocessing and of the library models.          *)

\* \s of the regular expressions and the separator of str.split()
IsSpace(c) == c \in {" ", "\n", "\t"}

\* [a-zA-Z]
IsLetter(c) ==
  \E i \in 1..Len(Lowers) : Lowers[i] = c \/ Uppers[i] = c

\* the sentence punctuation that line 82 keeps
IsPunct(c) == c \in {"!", "?", "."}

\* s[i..] starts with the literal p
StartsAt(s, i, p) ==
  /\ i + Len(p) - 1 <= Len(s)
  /\ SubSeq(s, i, i + Len(p) - 1) = p

\* index of the first whitespace character at or after i, Len(s)+1 if none
RECURSIVE RunEnd(_, _)
RunEnd(s, i) ==
  IF i > Len(s) \/ IsSpace(s[i]) THEN i ELSE RunEnd(s, i + 1)

\* str.split(): the maximal runs of non-whitespace characters
RECURSIVE SplitFrom(_, _, _)
SplitFrom(s, i, cur) ==
  IF i > Len(s) THEN (IF cur = <<>> THEN <<>> ELSE <<cur>>)
  ELSE IF IsSpace(s[i])
       THEN (IF cur = <<>> THEN <<>> ELSE <<cur>>) \o SplitFrom(s, i + 1, <<>>)
       ELSE SplitFrom(s, i + 1, Append(cur, s[i]))

Split(s) == SplitFrom(s, 1, <<>>)

\* ' '.join(words)
RECURSIVE Join(_)
Join(words) ==
  IF words = <<>> THEN <<>>
  ELSE IF Len(words) = 1 THEN words[1]
  ELSE words[1] \o <<" ">> \o Join(Tail(words))

\* str.strip()
RECURSIVE LStrip(_)
LStrip(s) == IF s # <<>> /\ IsSpace(Head(s)) THEN LStrip(Tail(s)) ELSE s

RECURSIVE RStrip(_)
RStrip(s) ==
  IF s # <<>> /\ IsSpace(s[Len(s)]) THEN RStrip(SubSeq(s, 1, Len(s) - 1)) ELSE s

Strip(s) == RStrip(LStrip(s))

----------------------------------------------------------------------------
(* preprocess_text, lines 56-97.                                           *)

http == <<"h","t","t","p">>

www == <<"w","w","w">>

\* re.sub(r'http\S+|www\S+|https\S+', '', s): a match starts at "http" or
\* "www" followed by at least one non-whitespace character and runs to the
\* next whitespace
RECURSIVE RemoveURLs(_, _)
RemoveURLs(s, i) ==
  IF i > Len(s) THEN <<>>
  ELSE IF \/ (StartsAt(s, i, http) /\ i + 4 <= Len(s) /\ ~IsSpace(s[i + 4]))
          \/ (StartsAt(s, i, www) /\ i + 3 <= Len(s) /\ ~IsSpace(s[i + 3]))
       THEN RemoveURLs(s, RunEnd(s, i))
       ELSE <<s[i]>> \o RemoveURLs(s, i + 1)

\* re.sub(r'\S+@\S+', '', s): a match starts at a non-whitespace character
\* that has an "@" later in its run with a character after it, and runs to
\* the next whitespace
RECURSIVE RemoveEmails(_, _)
RemoveEmails(s, i) ==
  IF i > Len(s) THEN <<>>
  ELSE IF /\ ~IsSpace(s[i])
          /\ \E k \in (i + 1)..(RunEnd(s, i) - 2) : s[k] = "@"
       THEN RemoveEmails(s, RunEnd(s, i))
       ELSE <<s[i]>> \o RemoveEmails(s, i + 1)

\* re.sub(r'[^a-zA-Z\s!?.]', '', s)
RemoveSpecial(s) == SelectSeq(s, LAMBDA c : IsLetter(c) \/ IsSpace(c) \/ IsPunct(c))

\* ' '.join(s.split())
CollapseWhitespace(s) == Join(Split(s))

\* CleanText that strips the special characters before the URLs and the
\* e-mail addresses
CleanTextSpecialFirst(text) ==
  CollapseWhitespace(RemoveEmails(RemoveURLs(RemoveSpecial(Lower(text)), 1), 1))

\* lines 73-85: the cleaned text
CleanText(text) ==
  CollapseWhitespace(RemoveSpecial(RemoveEmails(RemoveURLs(Lower(text), 1), 1)))

\* word_tokenize (nltk) on a cleaned chunk: a run of letters is a token, a
\* run of periods is a token, every "!" and "?" is a token of its own
RECURSIVE TokenizeChunk(_, _, _)
TokenizeChunk(s, i, cur) ==
  LET flush == IF cur = <<>> THEN <<>> ELSE <<cur>>
  IN  IF i > Len(s) THEN flush
      ELSE IF s[i] \in {"!", "?"}
           THEN flush \o <<(<<s[i]>>)>> \o TokenizeChunk(s, i + 1, <<>>)
      ELSE IF cur # <<>> /\ ((s[i] = ".") # (cur[1] = "."))
           THEN flush \o TokenizeChunk(s, i + 1, <<s[i]>>)
      ELSE TokenizeChunk(s, i + 1, Append(cur, s[i]))

\* word_tokenize (nltk): the tokens of every whitespace-separated chunk
RECURSIVE TokenizeChunks(_)
TokenizeChunks(chunks) ==
  IF chunks = <<>> THEN <<>>
  ELSE TokenizeChunk(Head(chunks), 1, <<>>) \o TokenizeChunks(Tail(chunks))

WordTokenize(s) == TokenizeChunks(Split(s))

\* WordNetLemmatizer.lemmatize(token): the lemma of a form the lemmatizer
\* knows, the token itself otherwise
Lemmatize(lem, token) ==
  IF token \in DOMAIN lem THEN lem[token] ELSE token

\* lines 88-95: tokenize, drop stopwords and short tokens, lemmatize
RECURSIVE FilterLemmatize(_, _, _)
FilterLemmatize(tokens, lem, stops) ==
  IF tokens = <<>> THEN <<>>
  ELSE (IF Lower(Head(tokens)) \notin stops /\ Len(Head(tokens)) > 2
        THEN <<Lemmatize(lem, Head(tokens))>> ELSE <<>>)
       \o FilterLemmatize(Tail(tokens), lem, stops)

\* preprocess_text(text): (processed_tokens, text_cleaned)
PreprocessText(lem, stops, text) ==
  LET text_cleaned == CleanText(text)
  IN  [ processed_tokens |-> FilterLemmatize(WordTokenize(text_cleaned), lem, stops),
        text_cleaned |-> text_cleaned ]

\* the locals of preprocess_text(text) when it returns, lines 73-95
PreprocessLocals(lem, stops, text) ==
  [ called |-> TRUE,
    text |-> text,
    text_lower |-> Lower(text),
    text_cleaned |-> CleanText(text),
    tokens |-> WordTokenize(CleanText(text)),
    processed_tokens |-> PreprocessText(lem, stops, text).processed_tokens ]

----------------------------------------------------------------------------
(* The language resources the analyzer is constructed with, and the       *)
(* library calls of lines 110, 129-131 and 345.                            *)

\* a valence lexicon as SentimentIntensityAnalyzer loads it: word -> valence
VaderLexicon ==
  (<<"e","x","c","e","l","l","e","n","t">> :> 3)
  @@ (<<"s","u","p","e","r","b">> :> 3)
  @@ (<<"a","m","a","z","i","n","g">> :> 3)
  @@ (<<"b","r","i","l","l","i","a","n","t">> :> 3)
  @@ (<<"f","i","n","e">> :> 1)
  @@ (<<"h","o","p","i","n","g">> :> 2)
  @@ (<<"p","a","t","h","e","t","i","c">> :> -3)
  @@ (<<"b","o","r","i","n","g">> :> -1)
  @@ (<<"a","w","f","u","l">> :> -2)
  @@ (<<"r","u","b","b","i","s","h">> :> -2)
  @@ (<<"d","i","s","a","p","p","o","i","n","t","m","e","n","t">> :> -2)
  @@ (<<"w","a","s","t","e">> :> -1)

\* a second valence lexicon, with other words and weights
PlainLexicon ==
  (<<"e","x","c","e","l","l","e","n","t">> :> 1)
  @@ (<<"r","u","b","b","i","s","h">> :> -4)
  @@ (<<"f","i","l","m">> :> 1)

\* the polarity lexicon of TextBlob: word -> polarity and subjectivity in ten-thousandths
PatternLexicon ==
  (<<"e","x","c","e","l","l","e","n","t">> :> [polarity |-> 10000, subjectivity |-> 10000])
  @@ (<<"s","u","p","e","r","b">> :> [polarity |-> 10000, subjectivity |-> 10000])
  @@ (<<"a","m","a","z","i","n","g">> :> [polarity |-> 6000, subjectivity |-> 9000])
  @@ (<<"b","r","i","l","l","i","a","n","t">> :> [polarity |-> 9000, subjectivity |-> 10000])
  @@ (<<"f","i","n","e">> :> [polarity |-> 4167, subjectivity |-> 5000])
  @@ (<<"p","a","t","h","e","t","i","c">> :> [polarity |-> -10000, subjectivity |-> 10000])
  @@ (<<"b","o","r","i","n","g">> :> [polarity |-> -10000, subjectivity |-> 10000])
  @@ (<<"a","w","f","u","l">> :> [polarity |-> -10000, subjectivity |-> 10000])

\* the inflected forms WordNetLemmatizer maps to another lemma
WordNetForms ==
  (<<"f","i","l","m","s">> :> <<"f","i","l","m">>)
  @@ (<<"m","o","v","i","e","s">> :> <<"m","o","v","i","e">>)
  @@ (<<"h","o","p","e","s">> :> <<"h","o","p","e">>)

\* stopwords.words('english'), the entries the texts of the model can meet
EnglishStopwords ==
  { <<"i">>,
    <<"w","a","s">>,
    <<"f","o","r">>,
    <<"a","n">>,
    <<"a">>,
    <<"t","h","e">>,
    <<"b","u","t">>,
    <<"w","h","a","t">>,
    <<"w","e","r","e">>,
    <<"a","n","d">>,
    <<"t","h","i","s">>,
    <<"i","t">>,
    <<"o","f">>,
    <<"t","o">>,
    <<"m","y">> }

\* the valence lexicons an analyzer can be constructed with
Lexicons == {VaderLexicon, PlainLexicon}

\* round(x, 3) of a signed rational, as thousandths
SignedRound3(x) == IF x.n < 0 THEN -1 * Round3(RAbs(x)) ELSE Round3(x)

RECURSIVE SumSeq(_)
SumSeq(s) == IF s = <<>> THEN 0 ELSE Head(s) + SumSeq(Tail(s))

\* a word without the punctuation around it
RECURSIVE StripPunct(_)
StripPunct(w) ==
  IF w = <<>> THEN w
  ELSE IF ~IsLetter(Head(w)) THEN StripPunct(Tail(w))
  ELSE IF ~IsLetter(w[Len(w)]) THEN StripPunct(SubSeq(w, 1, Len(w) - 1))
  ELSE w

\* the lower-cased words of a text span, punctuation stripped
WordsOf(text) ==
  LET ws == Split(text)
  IN  [i \in 1..Len(ws) |-> Lower(StripPunct(ws[i]))]

\* 10000 * s / sqrt(s*s + 15), the normalisation of the summed valence s
NormTable == <<2500, 4588, 6124, 7184, 7906, 8402, 8750, 9001, 9186, 9325, 9432, 9517>>

Normalize(s) ==
  IF s = 0 THEN 0
  ELSE (IF s < 0 THEN -1 ELSE 1) * NormTable[Min(Abs(s), Len(NormTable))]

\* SentimentIntensityAnalyzer.polarity_scores(text): the valence of each word
Valences(lexicon, text) ==
  LET ws == WordsOf(text)
  IN  [i \in 1..Len(ws) |-> IF ws[i] \in DOMAIN lexicon THEN lexicon[ws[i]] ELSE 0]

\* analyze_sentiment_vader(text), lines 99-116: the scorer's pos/neg/neu
\* proportions and compound score, each rounded to 3 decimals
AnalyzeSentimentVader(lexicon, text) ==
  LET vs      == Valences(lexicon, text)
      pos_sum == SumSeq([i \in 1..Len(vs) |-> IF vs[i] > 0 THEN vs[i] + 1 ELSE 0])
      neg_sum == SumSeq([i \in 1..Len(vs) |-> IF vs[i] < 0 THEN 1 - vs[i] ELSE 0])
      neu_cnt == Cardinality({i \in 1..Len(vs) : vs[i] = 0})
      total   == pos_sum + neg_sum + neu_cnt
      part(x) == IF total = 0 THEN 0 ELSE Round3(Rat(x, total))
  IN  [ positive |-> part(pos_sum),
        negative |-> part(neg_sum),
        neutral  |-> part(neu_cnt),
        compound |-> SignedRound3(Rat(Normalize(SumSeq(vs)), 10000)) ]

\* analyze_sentiment_textblob(text), lines 118-136: the mean polarity and
\* subjectivity of the words the polarity lexicon knows, rounded to 3 decimals
AnalyzeSentimentTextblob(text) ==
  LET ws    == WordsOf(text)
      known == SelectSeq(ws, LAMBDA w : w \in DOMAIN PatternLexicon)
      n     == Len(known)
      pols  == [i \in 1..n |-> PatternLexicon[known[i]].polarity]
      subs  == [i \in 1..n |-> PatternLexicon[known[i]].subjectivity]
  IN  [ polarity     |-> IF n = 0 THEN 0 ELSE SignedRound3(Rat(SumSeq(pols), 10000 * n)),
        subjectivity |-> IF n = 0 THEN 0 ELSE Round3(Rat(SumSeq(subs), 10000 * n)) ]

\* sent_tokenize(text) (nltk): a sentence ends at ".", "!" or "?" followed by
\* whitespace or the end of the text; sentences carry no surrounding
\* whitespace and are never empty
RECURSIVE SentTokenizeFrom(_, _, _)
SentTokenizeFrom(s, i, cur) ==
  LET flush(x) == IF Strip(x) = <<>> THEN <<>> ELSE <<Strip(x)>>
  IN  IF i > Len(s) THEN flush(cur)
      ELSE IF IsPunct(s[i]) /\ (i = Len(s) \/ IsSpace(s[i + 1]))
           THEN flush(Append(cur, s[i])) \o SentTokenizeFrom(s, i + 1, <<>>)
      ELSE SentTokenizeFrom(s, i + 1, Append(cur, s[i]))

SentTokenize(text) == SentTokenizeFrom(text, 1, <<>>)

\* ClassifySentiment with strict comparisons at both thresholds
ClassifySentimentStrict(compound_score) ==
  IF compound_score > 50 THEN "positive"
  ELSE IF compound_score < -50 THEN "negative"
  ELSE "neutral"

\* classify_sentiment(compound_score), lines 138-154
ClassifySentiment(compound_score) ==
  IF compound_score >= 50 THEN "positive"
  ELSE IF compound_score <= -50 THEN "negative"
  ELSE "neutral"

----------------------------------------------------------------------------
(* get_detailed_analysis and analyze_multiple_texts, lines 325-389.        *)

Labels == {"positive", "negative", "neutral"}

\* SentenceSentiments appending a record only for a sentence with a non-zero
\* compound score
SentenceSentimentsSkipNeutral(an, sentences) ==
  LET scored == SelectSeq(sentences,
                  LAMBDA s : AnalyzeSentimentVader(an.sia, s).compound # 0)
  IN  [i \in 1..Len(scored) |->
         LET sent_scores == AnalyzeSentimentVader(an.sia, scored[i])
         IN  [ sentence   |-> Strip(scored[i]),
               sentiment  |-> ClassifySentiment(sent_scores.compound),
               confidence |-> Abs(sent_scores.compound) ]]

\* lines 348-353: the record appended for one sentence, from the scores
\* analyze_sentiment_vader returned for it
SentenceRecord(sentence, sent_scores) ==
  [ sentence   |-> Strip(sentence),
    sentiment  |-> ClassifySentiment(sent_scores.compound),
    confidence |-> Abs(sent_scores.compound) ]

\* lines 345-353: one record per sentence of the splitter, in its order
SentenceSentiments(an, sentences) ==
  [i \in 1..Len(sentences) |->
     SentenceRecord(sentences[i], AnalyzeSentimentVader(an.sia, sentences[i]))]

\* lines 361-371: the returned record, from the locals of the call
DetailedAnalysis(pre, vader_scores, textblob_scores, sentences, sentence_sentiments, cls) ==
  [ overall_sentiment |-> cls.sentiment,
    confidence        |-> cls.confidence,
    vader_scores      |-> vader_scores,
    textblob_scores   |-> textblob_scores,
    processed_tokens  |-> pre.processed_tokens,
    token_count       |-> Len(pre.processed_tokens),
    sentence_count    |-> Len(sentences),
    sentence_analysis |-> sentence_sentiments,
    cleaned_text      |-> pre.text_cleaned ]

\* lines 355-359: the overall classification from the locals computed so far
ClassifiedAnalysis(pre, vader_scores, textblob_scores, sentences, sentence_sentiments, text) ==
  DetailedAnalysis(pre, vader_scores, textblob_scores, sentences, sentence_sentiments,
                   ClassifyOverallSentiment(vader_scores, textblob_scores,
                                            sentence_sentiments, text))

\* lines 344-353: the sentence loop over the sentences of the splitter
SentenceAnalysis(an, pre, vader_scores, textblob_scores, sentences, text) ==
  ClassifiedAnalysis(pre, vader_scores, textblob_scores, sentences,
                     SentenceSentiments(an, sentences), text)

\* get_detailed_analysis(text) on the analyzer an, lines 335-371: each local
\* is computed once, as in the source, and the record is returned
GetDetailedAnalysisResult(an, text) ==
  SentenceAnalysis(an, PreprocessText(an.lemmatizer, an.stop_words, text),
                   AnalyzeSentimentVader(an.sia, text),
                   AnalyzeSentimentTextblob(text), SentTokenize(text), text)

\* GetDetailedAnalysisResult of every document of the model under every
\* analyzer Init constructs, computed once
ResultMemo ==
  [p \in {<<[sia |-> l, lemmatizer |-> WordNetForms, stop_words |-> EnglishStopwords], t>> :
            l \in Lexicons, t \in Docs} |-> GetDetailedAnalysisResult(p[1], p[2])] @@ <<>>

\* the record get_detailed_analysis(text) returns on the analyzer an
AnalysisResult(an, text) ==
  IF <<an, text>> \in DOMAIN ResultMemo THEN ResultMemo[<<an, text>>]
  ELSE GetDetailedAnalysisResult(an, text)

\* AnalyzerAfter for a get_detailed_analysis that remembers the tokens it
\* has processed in self.stop_words
AnalyzerAfterCaching(an, text) ==
  LET tokens == PreprocessText(an.lemmatizer, an.stop_words, text).processed_tokens
  IN  [an EXCEPT !.stop_words = @ \cup {tokens[i] : i \in 1..Len(tokens)}]

\* the analyzer's fields after get_detailed_analysis(text): no statement of
\* lines 325-373, nor of the methods they call, assigns to self
AnalyzerAfter(an, text) == an

\* RunBatch inserting each result at the front of the list
RECURSIVE RunBatchPrepend(_, _)
RunBatchPrepend(an, texts) ==
  IF texts = <<>> THEN [results |-> <<>>, an |-> an]
  ELSE LET rest == RunBatchPrepend(AnalyzerAfter(an, Head(texts)), Tail(texts))
       IN  [ results |-> rest.results \o <<AnalysisResult(an, Head(texts))>>,
             an      |-> rest.an ]

\* analyze_multiple_texts(texts), lines 385-389: the results list, and the
\* analyzer after the loop
RECURSIVE RunBatch(_, _)
RunBatch(an, texts) ==
  IF texts = <<>> THEN [results |-> <<>>, an |-> an]
  ELSE LET rest == RunBatch(AnalyzerAfter(an, Head(texts)), Tail(texts))
       IN  [ results |-> <<AnalysisResult(an, Head(texts))>> \o rest.results,
             an      |-> rest.an ]

\* the sentences sent_tokenize finds in the documents of the model
DocSentences ==
  UNION {{SentTokenize(d)[i] : i \in 1..Len(SentTokenize(d))} : d \in Docs}

\* the values the statements of get_detailed_analysis compute for the
\* documents of the model on an analyzer as constructed, computed once
PreprocessMemo ==
  [t \in Docs |-> PreprocessText(WordNetForms, EnglishStopwords, t)] @@ <<>>

VaderMemo ==
  [p \in Lexicons \X (Docs \cup DocSentences) |-> AnalyzeSentimentVader(p[1], p[2])] @@ <<>>

TextblobMemo == [t \in Docs |-> AnalyzeSentimentTextblob(t)] @@ <<>>

SentTokenizeMemo == [t \in Docs |-> SentTokenize(t)] @@ <<>>

\* line 336: self.preprocess_text(text), reading the shared lemmatizer and
\* stop words
Preprocessed(an, text) ==
  IF an.lemmatizer = WordNetForms /\ an.stop_words = EnglishStopwords
     /\ text \in DOMAIN PreprocessMemo
  THEN PreprocessMemo[text]
  ELSE PreprocessText(an.lemmatizer, an.stop_words, text)

\* lines 339 and 348: self.analyze_sentiment_vader(text), reading the shared
\* lexicon
VaderScores(an, text) ==
  IF <<an.sia, text>> \in DOMAIN VaderMemo THEN VaderMemo[<<an.sia, text>>]
  ELSE AnalyzeSentimentVader(an.sia, text)

\* line 342: self.analyze_sentiment_textblob(text)
TextblobScores(text) ==
  IF text \in DOMAIN TextblobMemo THEN TextblobMemo[text]
  ELSE AnalyzeSentimentTextblob(text)

\* line 345: sent_tokenize(text)
SentencesOf(text) ==
  IF text \in DOMAIN SentTokenizeMemo THEN SentTokenizeMemo[text]
  ELSE SentTokenize(text)

\* AnalyzerAfterStep for a preprocess_text that remembers the tokens it has
\* processed in self.stop_words
AnalyzerAfterStepCaching(an, pc, text) ==
  IF pc = "preprocess"
  THEN LET tokens == Preprocessed(an, text).processed_tokens
       IN  [an EXCEPT !.stop_words = @ \cup {tokens[i] : i \in 1..Len(tokens)}]
  ELSE an

\* the analyzer's fields after the statement at position pc of
\* get_detailed_analysis(text): no statement of lines 336-373, nor of the
\* methods they call, assigns to self or to an object self holds
AnalyzerAfterStep(an, pc, text) == an

----------------------------------------------------------------------------
(* The analyzer object and its callers.                                    *)

Analyzer == [sia |-> sia, lemmatizer |-> lemmatizer, stop_words |-> stop_words]

\* SentimentAnalyzer.__init__, lines 50-54; no call has been made yet
Init ==
  /\ sia \in Lexicons
  /\ lemmatizer = WordNetForms
  /\ stop_words = EnglishStopwords
  /\ calls = <<>>
  /\ batch = NoBatch
  /\ threads = NoThreads
  /\ responses = NoResponses
  /\ frame = NoFrame

\* a caller runs get_detailed_analysis(text) and keeps the result
GetDetailedAnalysis(text) ==
  /\ Len(calls) < MaxCalls
  /\ calls' = Append(calls, [text |-> text,
                             result |-> AnalysisResult(Analyzer, text)])
  /\ sia' = AnalyzerAfter(Analyzer, text).sia
  /\ lemmatizer' = AnalyzerAfter(Analyzer, text).lemmatizer
  /\ stop_words' = AnalyzerAfter(Analyzer, text).stop_words
  /\ UNCHANGED <<batch, frame, threads, responses>>

\* the caller's state once analyze_multiple_texts(texts) has returned run
BatchReturns(texts, run) ==
  /\ batch' = [called |-> TRUE, texts |-> texts, results |-> run.results]
  /\ sia' = run.an.sia
  /\ lemmatizer' = run.an.lemmatizer
  /\ stop_words' = run.an.stop_words

\* a caller runs analyze_multiple_texts(texts) and keeps the results; the
\* model follows one batch call in a behaviour
AnalyzeMultipleTexts(texts) ==
  /\ ~batch.called
  /\ BatchReturns(texts, RunBatch(Analyzer, texts))
  /\ UNCHANGED <<calls, frame, threads, responses>>

Next ==
  \/ \E text \in Docs : GetDetailedAnalysis(text)
  \/ \E texts \in SeqsUpTo(Docs, MaxBatch) : AnalyzeMultipleTexts(texts)

Spec == Init /\ [][Next]_vars

\* classify_overall_sentiment as a function of its arguments: the arguments
\* are drawn, then the call is made
InitClassify ==
  /\ sia = VaderLexicon
  /\ lemmatizer = WordNetForms
  /\ stop_words = EnglishStopwords
  /\ calls = <<>>
  /\ batch = NoBatch
  /\ threads = NoThreads
  /\ responses = NoResponses
  /\ frame \in ClassifyInputs

Classify ==
  /\ ~frame.called
  /\ "text" \in DOMAIN frame
  /\ frame' = ClassifyOverallSentiment([compound |-> frame.compound],
                                       [polarity |-> frame.polarity],
                                       frame.sentence_sentiments, frame.text)
  /\ UNCHANGED <<sia, lemmatizer, stop_words, calls, batch, threads, responses>>

NextClassify == Classify

SpecClassify == InitClassify /\ [][NextClassify]_vars

\* the same call on arguments near the classification thresholds
InitCascade ==
  /\ sia = VaderLexicon
  /\ lemmatizer = WordNetForms
  /\ stop_words = EnglishStopwords
  /\ calls = <<>>
  /\ batch = NoBatch
  /\ threads = NoThreads
  /\ responses = NoResponses
  /\ frame \in CascadeInputs

SpecCascade == InitCascade /\ [][NextClassify]_vars

\* the same call on texts of the expectation rule
InitExpectation ==
  /\ sia = VaderLexicon
  /\ lemmatizer = WordNetForms
  /\ stop_words = EnglishStopwords
  /\ calls = <<>>
  /\ batch = NoBatch
  /\ threads = NoThreads
  /\ responses = NoResponses
  /\ frame \in ExpectationInputs

SpecExpectation == InitExpectation /\ [][NextClassify]_vars

\* the same call on longer sentence lists
InitIntensity ==
  /\ sia = VaderLexicon
  /\ lemmatizer = WordNetForms
  /\ stop_words = EnglishStopwords
  /\ calls = <<>>
  /\ batch = NoBatch
  /\ threads = NoThreads
  /\ responses = NoResponses
  /\ frame \in IntensityInputs

SpecIntensity == InitIntensity /\ [][NextClassify]_vars

\* preprocess_text as a function of the raw text: the text is drawn, then
\* the call is made on the analyzer as constructed
InitPreprocess ==
  /\ sia = VaderLexicon
  /\ lemmatizer = WordNetForms
  /\ stop_words = EnglishStopwords
  /\ calls = <<>>
  /\ batch = NoBatch
  /\ threads = NoThreads
  /\ responses = NoResponses
  /\ frame \in PreprocessInputs

PreprocessCall ==
  /\ ~frame.called
  /\ frame' = PreprocessLocals(lemmatizer, stop_words, frame.text)
  /\ UNCHANGED <<sia, lemmatizer, stop_words, calls, batch, threads, responses>>

NextPreprocess == PreprocessCall

SpecPreprocess == InitPreprocess /\ [][NextPreprocess]_vars

\* the body of the sentence loop as a function of the sentence and of the
\* scores of the sentence: they are drawn, then the record is built
InitSentence ==
  /\ sia = VaderLexicon
  /\ lemmatizer = WordNetForms
  /\ stop_words = EnglishStopwords
  /\ calls = <<>>
  /\ batch = NoBatch
  /\ threads = NoThreads
  /\ responses = NoResponses
  /\ frame \in SentenceInputs

AppendSentence ==
  /\ ~frame.called
  /\ "sent_scores" \in DOMAIN frame
  /\ frame' = [ called |-> TRUE,
                sentence |-> frame.sentence,
                sent_scores |-> frame.sent_scores,
                record |-> SentenceRecord(frame.sentence, frame.sent_scores) ]
  /\ UNCHANGED <<sia, lemmatizer, stop_words, calls, batch, threads, responses>>

NextSentence == AppendSentence

SpecSentence == InitSentence /\ [][NextSentence]_vars

\* a thread is inside get_detailed_analysis
MidCall(f) == f.pc \notin {"idle", "done", "abandoned"}

\* thread t moves to the frame next; the statement it ran leaves the shared
\* analyzer as AnalyzerAfterStep says
Step(t, next) ==
  /\ threads' = [threads EXCEPT ![t] =
                   [next EXCEPT !.concurrent =
                      @ \/ \E u \in Threads \ {t} : MidCall(threads[u])]]
  /\ sia' = AnalyzerAfterStep(Analyzer, threads[t].pc, threads[t].text).sia
  /\ lemmatizer' = AnalyzerAfterStep(Analyzer, threads[t].pc, threads[t].text).lemmatizer
  /\ stop_words' = AnalyzerAfterStep(Analyzer, threads[t].pc, threads[t].text).stop_words
  /\ UNCHANGED <<calls, batch, frame, responses>>

\* thread t calls analyzer.get_detailed_analysis(text)
Call(t, text) ==
  /\ threads[t].pc = "idle"
  /\ Step(t, Frame("preprocess", text))

\* line 336
Preprocess(t) ==
  /\ threads[t].pc = "preprocess"
  /\ Step(t, [threads[t] EXCEPT !.pc = "vader",
                                !.pre = Preprocessed(Analyzer, threads[t].text)])

\* line 339
Vader(t) ==
  /\ threads[t].pc = "vader"
  /\ Step(t, [threads[t] EXCEPT !.pc = "textblob",
                                !.vader_scores = VaderScores(Analyzer, threads[t].text)])

\* line 342
Textblob(t) ==
  /\ threads[t].pc = "textblob"
  /\ Step(t, [threads[t] EXCEPT !.pc = "sent_tokenize",
                                !.textblob_scores = TextblobScores(threads[t].text)])

\* lines 345-346
Tokenize(t) ==
  /\ threads[t].pc = "sent_tokenize"
  /\ Step(t, [threads[t] EXCEPT !.pc = "loop",
                                !.sentences = SentencesOf(threads[t].text),
                                !.sentence_sentiments = <<>>])

\* lines 347-353: one turn of the sentence loop
LoopTurn(t) ==
  /\ threads[t].pc = "loop"
  /\ Len(threads[t].sentence_sentiments) < Len(threads[t].sentences)
  /\ Step(t, [threads[t] EXCEPT !.sentence_sentiments =
                 Append(@, SentenceRecord(
                   threads[t].sentences[Len(threads[t].sentence_sentiments) + 1],
                   VaderScores(Analyzer,
                     threads[t].sentences[Len(threads[t].sentence_sentiments) + 1])))])

\* lines 356-361, once the loop has run over every sentence
ClassifyOverall(t) ==
  /\ threads[t].pc = "loop"
  /\ Len(threads[t].sentence_sentiments) = Len(threads[t].sentences)
  /\ Step(t, [threads[t] EXCEPT !.pc = "return",
                 !.cls = ClassifyOverallSentiment(threads[t].vader_scores,
                           threads[t].textblob_scores,
                           threads[t].sentence_sentiments, threads[t].text)])

\* lines 363-373
Return(t) ==
  /\ threads[t].pc = "return"
  /\ Step(t, [threads[t] EXCEPT !.pc = "done",
                 !.result = DetailedAnalysis(threads[t].pre, threads[t].vader_scores,
                              threads[t].textblob_scores, threads[t].sentences,
                              threads[t].sentence_sentiments, threads[t].cls)])

\* the call of thread t is abandoned where it stands: its frame is dropped
Abandon(t) ==
  /\ MidCall(threads[t])
  /\ threads' = [threads EXCEPT ![t] =
                   [Frame("abandoned", threads[t].text) EXCEPT
                      !.concurrent = threads[t].concurrent]]
  /\ UNCHANGED <<sia, lemmatizer, stop_words, calls, batch, frame, responses>>

NextThreads ==
  \/ \E t \in Threads, text \in Docs : Call(t, text)
  \/ \E t \in Threads : Preprocess(t)
  \/ \E t \in Threads : Vader(t)
  \/ \E t \in Threads : Textblob(t)
  \/ \E t \in Threads : Tokenize(t)
  \/ \E t \in Threads : LoopTurn(t)
  \/ \E t \in Threads : ClassifyOverall(t)
  \/ \E t \in Threads : Return(t)
  \/ \E t \in Threads : Abandon(t)

SpecThreads == Init /\ [][NextThreads]_vars

----------------------------------------------------------------------------
(* The Flask endpoints of app.py that hand request text to the analyzer.   *)
(* A JSON value is [type, value]; a JSON object is [keys, text, texts]     *)
(* with keys the names it has.  A response is its status, its error        *)
(* message and, in analyzed, the texts the handler passed to               *)
(* analyzer.get_detailed_analysis, in order: the body of a 200 response is *)
(* built from the analyses of those texts (GetDetailedAnalysisResult).     *)
(* Requests carry a JSON object, and uploaded files decode as UTF-8.       *)

\* app.py lines 85 and 136
MaxTextLength == 50000

\* app.py line 204
MaxBatchTexts == 10

Str(s) == [type |-> "str", value |-> s]

Num(n) == [type |-> "int", value |-> n]

List(xs) == [type |-> "list", value |-> xs]

Absent == [type |-> "absent", value |-> 0]

\* a text of n letters
LongWord(n) == [i \in 1..n |-> "a"]

\* one character more than the limit, and a text that is at the limit once
\* its surrounding blanks are trimmed
Oversized == LongWord(MaxTextLength + 1)

AtLimitPadded == <<" ">> \o LongWord(MaxTextLength) \o <<" ">>

\* "", "  ", " \n", "ok", " ok ", and the long texts
RequestTexts ==
  { <<>>, <<" ", " ">>, <<" ", "\n">>, <<"o", "k">>, <<" ", "o", "k", " ">>,
    DocPraise, Oversized, AtLimitPadded }

\* the JSON objects posted to /api/analyze and /api/stats
TextBodies ==
  { [keys |-> {}, text |-> Absent, texts |-> Absent],
    [keys |-> {"other"}, text |-> Absent, texts |-> Absent],
    [keys |-> {"text"}, text |-> Num(5), texts |-> Absent] }
  \cup { [keys |-> {"text"}, text |-> Str(t), texts |-> Absent] : t \in RequestTexts }

\* the elements of a posted texts list
BatchElements == {Str(t) : t \in RequestTexts} \cup {Num(5)}

\* the JSON objects posted to /api/analyze-batch
BatchBodies ==
  { [keys |-> {}, text |-> Absent, texts |-> Absent],
    [keys |-> {"texts"}, text |-> Absent, texts |-> Str(<<"o", "k">>)],
    [keys |-> {"texts"}, text |-> Absent,
     texts |-> List([i \in 1..(MaxBatchTexts + 1) |-> Str(<<"o", "k">>)])],
    [keys |-> {"texts"}, text |-> Absent,
     texts |-> List([i \in 1..MaxBatchTexts |-> Str(<<"o", "k">>)])] }
  \cup { [keys |-> {"texts"}, text |-> Absent, texts |-> List(xs)] :
           xs \in SeqsUpTo(BatchElements, MaxBatch) }

\* "", "notes.txt", "notes.TXT", "notes.pdf", "notes"
Filenames ==
  { <<>>, <<"n","o","t","e","s",".","t","x","t">>,
    <<"n","o","t","e","s",".","T","X","T">>,
    <<"n","o","t","e","s",".","p","d","f">>, <<"n","o","t","e","s">> }

\* "", " \n ", "ok", "ok\n\nbad \n\n", "ok\nbad\n", "ok\n\n \n", and
\* the oversized text
FileContents ==
  { <<>>, <<" ", "\n", " ">>, <<"o", "k">>,
    <<"o", "k", "\n", "\n", "b", "a", "d", " ", "\n", "\n">>,
    <<"o", "k", "\n", "b", "a", "d", "\n">>,
    <<"o", "k", "\n", "\n", " ", "\n">>, Oversized }

\* request.files of a post to /api/analyze-file
Uploads ==
  { [has_file |-> FALSE, filename |-> <<>>, content |-> <<>>] }
  \cup [has_file : {TRUE}, filename : Filenames, content : FileContents]

Response(status, error, analyzed) ==
  [status |-> status, error |-> error, analyzed |-> analyzed]

\* analyze_text, lines 70-101
analyze_text(data) ==
  IF data.keys = {} \/ "text" \notin data.keys
  THEN Response(400, "Missing text field in request", <<>>)
  ELSE IF data.text.type # "str"
  THEN Response(500, "Error analyzing text", <<>>)
  ELSE IF Strip(data.text.value) = <<>>
  THEN Response(400, "Text field cannot be empty", <<>>)
  ELSE IF Len(Strip(data.text.value)) > MaxTextLength
  THEN Response(400, "Text exceeds maximum length of 50000 characters", <<>>)
  ELSE Response(200, "", <<Strip(data.text.value)>>)

\* get_stats, lines 243-277
get_stats(data) ==
  IF data.keys = {} \/ "text" \notin data.keys
  THEN Response(400, "Missing text field", <<>>)
  ELSE IF data.text.type # "str"
  THEN Response(500, "Error getting stats", <<>>)
  ELSE Response(200, "", <<Strip(data.text.value)>>)

\* line 210: [t.strip() for t in texts if t.strip()]
RECURSIVE StripNonEmpty(_)
StripNonEmpty(texts) ==
  IF texts = <<>> THEN <<>>
  ELSE (IF Strip(Head(texts)) = <<>> THEN <<>> ELSE <<Strip(Head(texts))>>)
       \o StripNonEmpty(Tail(texts))

\* analyze_batch, lines 189-235
analyze_batch(data) ==
  IF data.keys = {} \/ "texts" \notin data.keys
  THEN Response(400, "Missing texts field in request", <<>>)
  ELSE IF data.texts.type # "list"
  THEN Response(400, "texts field must be a list", <<>>)
  ELSE IF Len(data.texts.value) > MaxBatchTexts
  THEN Response(400, "Maximum 10 texts allowed per batch", <<>>)
  ELSE IF \E i \in 1..Len(data.texts.value) : data.texts.value[i].type # "str"
  THEN Response(500, "Error analyzing batch", <<>>)
  ELSE IF StripNonEmpty([i \in 1..Len(data.texts.value) |-> data.texts.value[i].value]) = <<>>
  THEN Response(400, "No valid texts provided", <<>>)
  ELSE Response(200, "", StripNonEmpty([i \in 1..Len(data.texts.value) |-> data.texts.value[i].value]))

\* str.split(sep) for a non-empty separator
RECURSIVE SplitOnFrom(_, _, _, _)
SplitOnFrom(s, sep, i, cur) ==
  IF i > Len(s) THEN <<cur>>
  ELSE IF StartsAt(s, i, sep)
       THEN <<cur>> \o SplitOnFrom(s, sep, i + Len(sep), <<>>)
       ELSE SplitOnFrom(s, sep, i + 1, Append(cur, s[i]))

SplitOn(s, sep) == SplitOnFrom(s, sep, 1, <<>>)

\* line 18
ALLOWED_EXTENSIONS == {<<"t","x","t">>, <<"p","d","f">>, <<"d","o","c","x">>}

\* filename.rsplit('.', 1)[1] of a filename that has a dot
Extension(filename) ==
  LET dot == CHOOSE i \in 1..Len(filename) :
               /\ filename[i] = "."
               /\ \A j \in (i + 1)..Len(filename) : filename[j] # "."
  IN  SubSeq(filename, dot + 1, Len(filename))

\* allowed_file(filename), lines 31-33
allowed_file(filename) ==
  /\ \E i \in 1..Len(filename) : filename[i] = "."
  /\ Lower(Extension(filename)) \in ALLOWED_EXTENSIONS

\* str.endswith(suffix)
EndsWith(s, suffix) ==
  /\ Len(suffix) <= Len(s)
  /\ SubSeq(s, Len(s) - Len(suffix) + 1, Len(s)) = suffix

\* lines 143-149: the paragraphs of the content, split at blank lines, or at
\* line ends when that gives more than one and blank lines give at most one
Paragraphs(content) ==
  IF Len(StripNonEmpty(SplitOn(content, <<"\n", "\n">>))) <= 1
     /\ Len(StripNonEmpty(SplitOn(content, <<"\n">>))) > 1
  THEN StripNonEmpty(SplitOn(content, <<"\n">>))
  ELSE StripNonEmpty(SplitOn(content, <<"\n", "\n">>))

\* analyze_file, lines 110-176
analyze_file(files) ==
  IF ~files.has_file
  THEN Response(400, "No file part in request", <<>>)
  ELSE IF files.filename = <<>>
  THEN Response(400, "No selected file", <<>>)
  ELSE IF ~allowed_file(files.filename)
  THEN Response(400, "File type not allowed. Allowed types: txt", <<>>)
  ELSE IF ~EndsWith(files.filename, <<".", "t", "x", "t">>)
  THEN Response(400, "Currently only .txt files are supported", <<>>)
  ELSE IF Len(files.content) > MaxTextLength
  THEN Response(400, "File content exceeds maximum length of 50000 characters", <<>>)
  ELSE IF Paragraphs(files.content) = <<>>
  THEN Response(400, "No valid content found in file", <<>>)
  ELSE Response(200, "", Paragraphs(files.content))

\* the server answers one request: the handler runs start to finish
Handle(endpoint, request, response) ==
  /\ responses.handled < MaxRequests
  /\ responses' = [ handled |-> responses.handled + 1, endpoint |-> endpoint,
                    request |-> request, response |-> response ]
  /\ UNCHANGED <<sia, lemmatizer, stop_words, calls, batch, frame, threads>>

AnalyzeText(data) == Handle("/api/analyze", data, analyze_text(data))

AnalyzeFile(files) == Handle("/api/analyze-file", files, analyze_file(files))

AnalyzeBatch(data) == Handle("/api/analyze-batch", data, analyze_batch(data))

GetStats(data) == Handle("/api/stats", data, get_stats(data))

NextApp ==
  \/ \E data \in TextBodies : AnalyzeText(data)
  \/ \E files \in Uploads : AnalyzeFile(files)
  \/ \E data \in BatchBodies : AnalyzeBatch(data)
  \/ \E data \in TextBodies : GetStats(data)

\* line 28 constructs the analyzer; then requests arrive
SpecApp == Init /\ [][NextApp]_vars

----------------------------------------------------------------------------
(* Properties of classify_overall_sentiment (checked under SpecClassify).  *)

\* neither confidence boost of lines 316-321 applies to the call
NoBoost(f) ==
  /\ ~(f.negative_keyword_count >= 2 \/ f.positive_keyword_count >= 2)
  /\ ~((f.compound > 0 /\ f.polarity > 0 /\ f.sentence_balance.n > 0)
       \/ (f.compound < 0 /\ f.polarity < 0 /\ f.sentence_balance.n < 0))

\* C1: every call of classify_overall_sentiment returns one of the three
\* labels and a confidence in [0, 1], before and after the final rounding,
\* also when no boost (and so no min(..., 1.0)) is applied.
C1_LabelAndConfidenceInRange ==
  frame.called =>
    /\ frame.sentiment \in Labels
    /\ frame.confidence \in 0..1000
    /\ RLe(Zero, frame.unrounded_confidence)
    /\ RLe(frame.unrounded_confidence, One)

\* a call on the path without any boost whose confidence is the largest that
\* path allows (0.30 + 0.25 + 0.10 + 0.075)
C1_Witness ==
  /\ frame.called
  /\ NoBoost(frame)
  /\ frame.confidence = 725

\* the precondition of the keyword override: three or more strong-negative
\* phrases, no strong-positive phrase, a mildly positive compound score
OverrideCase(f) ==
  /\ f.kw.raw_negative >= 3
  /\ f.kw.raw_positive = 0
  /\ f.compound > 0
  /\ f.compound < 300

\* C6 as stated: in the override case the label is negative for every
\* polarity and every sentence-record sequence.
C6_OverrideAlwaysNegative ==
  (frame.called /\ OverrideCase(frame)) => frame.sentiment = "negative"

\* C6 amended: in the override case the label is never neutral, it is
\* positive exactly when the combined score still reaches 0.12, and it is
\* negative whenever the polarity is not positive and the positive sentences
\* do not outnumber the negative ones.
C6_OverrideNegativeUnlessLifted ==
  (frame.called /\ OverrideCase(frame)) =>
    /\ frame.sentiment \in {"negative", "positive"}
    /\ frame.sentiment = "positive" <=> RLe(Rat(12, 100), frame.combined_score)
    /\ (frame.polarity <= 0 /\ frame.positive_count <= frame.negative_count)
         => frame.sentiment = "negative"

\* an override call that is classified negative although lexicon compound
\* is positive
C6_Witness ==
  /\ frame.called
  /\ OverrideCase(frame)
  /\ frame.polarity <= 0
  /\ frame.positive_count <= frame.negative_count
  /\ frame.sentiment = "negative"

\* the precondition of the expectation-framing claim: the rule fires on a
\* text with one or two strong-positive phrases
ExpectationCase(f) ==
  /\ f.kw.has_hope_disappointment
  /\ f.kw.has_disappointment
  /\ f.kw.raw_positive \in 1..2

\* C7 as stated: in the expectation case the label is not positive, whatever
\* the compound score, the polarity and the sentence records are.
C7_ExpectationNeverPositive ==
  (frame.called /\ ExpectationCase(frame)) => frame.sentiment # "positive"

\* C7 amended: in the expectation case the positive keyword count is 0, the
\* negative one at least 2 and the keyword adjustment at most -0.2, so the
\* label is never neutral and is positive only when the combined score
\* reaches 0.12 all the same.
C7_ExpectationPositiveOnlyByScore ==
  (frame.called /\ ExpectationCase(frame)) =>
    /\ frame.positive_keyword_count = 0
    /\ frame.negative_keyword_count >= 2
    /\ RLe(frame.keyword_adjustment, Rat(-2, 10))
    /\ frame.sentiment # "neutral"
    /\ frame.sentiment = "positive" => RLe(Rat(12, 100), frame.combined_score)

\* an expectation-case call that falls into the tie-break band and is
\* classified negative by the keyword counts
C7_Witness ==
  /\ frame.called
  /\ ExpectationCase(frame)
  /\ RLt(Rat(-8, 100), frame.combined_score)
  /\ RLt(frame.combined_score, Rat(12, 100))
  /\ frame.sentiment = "negative"

\* the combined score of the call f if its text were t instead
CombinedScoreWithText(f, t) ==
  CombinedScore(f.compound, f.polarity, f.sentence_balance,
                KeywordAdjustment(KeywordSignal(t).negative_keyword_count,
                                  KeywordSignal(t).positive_keyword_count),
                f.intensity_adjustment)

\* t matches at least as many strong-negative phrases as the text of f, as
\* many strong-positive ones, and the expectation rule fires on both or none
MoreNegativeText(f, t) ==
  /\ KeywordSignal(t).raw_negative >= f.kw.raw_negative
  /\ KeywordSignal(t).raw_positive = f.kw.raw_positive
  /\ KeywordSignal(t).expectation_adjusted = f.kw.expectation_adjusted

\* C8: with compound, polarity and sentence records fixed, a text with more
\* strong-negative matches never has a larger combined score.
C8_MoreNegativeNeverRaisesScore ==
  frame.called =>
    \A t \in ReviewTexts :
       MoreNegativeText(frame, t) =>
         RLe(CombinedScoreWithText(frame, t), frame.combined_score)

\* a call with a negative combined score for which a text with more
\* strong-negative matches has a strictly lower score
C8_Witness ==
  /\ frame.called
  /\ frame.combined_score.n < 0
  /\ \E t \in ReviewTexts :
        /\ MoreNegativeText(frame, t)
        /\ KeywordSignal(t).raw_negative > frame.kw.raw_negative
        /\ RLt(CombinedScoreWithText(frame, t), frame.combined_score)

\* the keyword adjustment the text t gets
AdjustmentOfText(t) ==
  KeywordAdjustment(KeywordSignal(t).negative_keyword_count,
                    KeywordSignal(t).positive_keyword_count)

\* C9: the keyword adjustment is -0.1*min(neg,3) when neg > pos,
\* +0.1*min(pos,3) when pos > neg and 0 when equal; it lies in [-0.3, +0.3]
\* and both endpoints are taken by some text.
C9_KeywordAdjustmentRange ==
  /\ frame.called =>
       /\ frame.negative_keyword_count > frame.positive_keyword_count
            => frame.keyword_adjustment = Rat(-1 * Min(frame.negative_keyword_count, 3), 10)
       /\ frame.positive_keyword_count > frame.negative_keyword_count
            => frame.keyword_adjustment = Rat(Min(frame.positive_keyword_count, 3), 10)
       /\ frame.positive_keyword_count = frame.negative_keyword_count
            => frame.keyword_adjustment = Zero
       /\ RLe(Rat(-3, 10), frame.keyword_adjustment)
       /\ RLe(frame.keyword_adjustment, Rat(3, 10))
  /\ \E t \in ReviewTexts : AdjustmentOfText(t) = Rat(-3, 10)
  /\ \E t \in ReviewTexts : AdjustmentOfText(t) = Rat(3, 10)

\* a call whose positive count exceeds the cap of 3 and whose adjustment is
\* the upper endpoint
C9_Witness ==
  /\ frame.called
  /\ frame.positive_keyword_count > 3
  /\ frame.negative_keyword_count > 0
  /\ frame.keyword_adjustment = Rat(3, 10)

----------------------------------------------------------------------------
(* Properties of get_detailed_analysis and analyze_multiple_texts (checked *)
(* under Spec).                                                            *)

\* the analyzer as __init__ constructed it
Constructed == [sia |-> sia, lemmatizer |-> WordNetForms, stop_words |-> EnglishStopwords]

\* C2: analyzing the empty string gives the neutral label, confidence 0.0,
\* no sentence and no token.
C2_EmptyTextDegenerate ==
  \A i \in 1..Len(calls) :
     calls[i].text = <<>> =>
       /\ calls[i].result.overall_sentiment = "neutral"
       /\ calls[i].result.confidence = 0
       /\ calls[i].result.sentence_count = 0
       /\ calls[i].result.token_count = 0

\* the empty string has been analyzed after a call on another text
C2_Witness ==
  \E i \in 2..Len(calls) :
     /\ calls[i].text = <<>>
     /\ calls[i - 1].text # <<>>
     /\ calls[i].result.sentence_analysis = <<>>

\* C3: sentence_analysis holds one record per sentence of the splitter, in
\* the splitter's order, and sentence_count is its length.
C3_OneRecordPerSentence ==
  \A i \in 1..Len(calls) :
     LET sentences == SentTokenize(calls[i].text)
         r == calls[i].result
     IN  /\ Len(r.sentence_analysis) = Len(sentences)
         /\ \A k \in 1..Len(sentences) :
               r.sentence_analysis[k].sentence = Strip(sentences[k])
         /\ r.sentence_count = Len(r.sentence_analysis)

\* a text of three different sentences, one of them neutral, has been
\* analyzed
C3_Witness ==
  \E i \in 1..Len(calls) :
     /\ calls[i].result.sentence_count = 3
     /\ calls[i].result.sentence_analysis[1].sentence
          # calls[i].result.sentence_analysis[2].sentence
     /\ \E k \in 1..3 : calls[i].result.sentence_analysis[k].sentiment = "neutral"

\* C4: two analyses of the same text return the same record, whatever was
\* analyzed in between, singly or in a batch.
C4_Deterministic ==
  /\ \A i, j \in 1..Len(calls) :
        calls[i].text = calls[j].text => calls[i].result = calls[j].result
  /\ \A i \in 1..Len(calls) : \A k \in 1..Len(batch.texts) :
        calls[i].text = batch.texts[k] => calls[i].result = batch.results[k]
  /\ \A k, m \in 1..Len(batch.texts) :
        batch.texts[k] = batch.texts[m] => batch.results[k] = batch.results[m]

\* a text analyzed twice with the analysis of another text in between
C4_Witness ==
  /\ Len(calls) >= 3
  /\ calls[1].text = calls[3].text
  /\ calls[1].text # calls[2].text
  /\ calls[1].result.token_count > 0
  /\ calls[2].result.token_count > 0

\* C5: analyze_multiple_texts returns as many results as texts, the i-th
\* being the analysis of the i-th text alone.
C5_BatchIsPointwise ==
  batch.called =>
    /\ Len(batch.results) = Len(batch.texts)
    /\ \A i \in 1..Len(batch.texts) :
          batch.results[i] = AnalysisResult(Constructed, batch.texts[i])

\* a batch of two texts with different results
C5_Witness ==
  /\ batch.called
  /\ Len(batch.texts) = 2
  /\ batch.results[1] # batch.results[2]
  /\ batch.results[1].token_count > 0
  /\ batch.results[2].token_count > 0

----------------------------------------------------------------------------
(* Properties of the sentence loop (checked under SpecSentence).           *)

\* C11: a sentence record is labelled positive when the compound score of
\* the sentence is >= 0.05, negative when it is <= -0.05 and neutral
\* otherwise, and its confidence is the absolute value of that same score.
C11_SentenceLabelThresholds ==
  (frame.called /\ "record" \in DOMAIN frame) =>
    LET c == frame.sent_scores.compound
    IN  /\ (c >= 50) => frame.record.sentiment = "positive"
        /\ (c <= -50) => frame.record.sentiment = "negative"
        /\ (-50 < c /\ c < 50) => frame.record.sentiment = "neutral"
        /\ frame.record.confidence = (IF c < 0 THEN -c ELSE c)

\* a record was built for a sentence whose compound score is exactly -0.05
C11_Witness ==
  /\ frame.called
  /\ "record" \in DOMAIN frame
  /\ frame.sent_scores.compound = -50
  /\ frame.record.sentiment = "negative"
  /\ frame.record.confidence = 50

----------------------------------------------------------------------------
(* Properties of concurrent calls on one analyzer (checked under           *)
(* SpecThreads).                                                           *)

\* C12: under any interleaving of get_detailed_analysis calls on one shared
\* analyzer, calls abandoned part-way included, every completed call returns
\* the result it returns when run alone on the analyzer as constructed, and
\* the shared lexicon, lemmatizer and stop words are never written.
C12_ConcurrentCallsIndependent ==
  /\ lemmatizer = WordNetForms
  /\ stop_words = EnglishStopwords
  /\ sia \in Lexicons
  /\ \A t \in Threads :
       threads[t].pc = "done" =>
         threads[t].result =
           AnalysisResult([sia |-> sia, lemmatizer |-> WordNetForms,
                           stop_words |-> EnglishStopwords], threads[t].text)

\* a call on DocRubbish completed with its three sentences although its steps
\* were interleaved with another call, which was abandoned part-way
C12_Witness ==
  \E t, u \in Threads :
    /\ t # u
    /\ threads[t].pc = "done"
    /\ threads[t].concurrent
    /\ threads[t].text = DocRubbish
    /\ threads[t].result.sentence_count = 3
    /\ threads[u].pc = "abandoned"
    /\ threads[u].concurrent
    /\ threads[u].text = DocHope

----------------------------------------------------------------------------
(* Properties of the endpoints of app.py (checked under SpecApp).          *)

\* a text that is empty once trimmed, or longer than the limit once trimmed
EmptyOrOversized(text) ==
  \/ \A i \in 1..Len(text) : IsSpace(text[i])
  \/ Len(Strip(text)) > MaxTextLength

\* C13: every endpoint that hands request text to the analyzer rejects text
\* that is empty after trimming or longer than 50,000 characters with an
\* error response, and the analyzer is never invoked on such text.
C13_BoundaryRejectsEmptyAndOversized ==
  responses.handled > 0 =>
    /\ \A i \in 1..Len(responses.response.analyzed) :
         ~EmptyOrOversized(responses.response.analyzed[i])
    /\ ( /\ responses.endpoint \in {"/api/analyze", "/api/stats"}
         /\ "text" \in responses.request.keys
         /\ responses.request.text.type = "str"
         /\ EmptyOrOversized(responses.request.text.value) )
       => responses.response.status = 400

----------------------------------------------------------------------------
(* Further properties of classify_overall_sentiment.                       *)

\* equality of two rationals, by cross-multiplication
REq(x, y) == x.n * y.d = y.n * x.d

\* C14: combined_score is compound*0.30 + polarity*0.15 +
\* sentence_balance*0.25 + keyword_adjustment + intensity_adjustment +
\* disagreement_bonus, where the bonus is polarity*0.10 exactly when compound
\* and polarity have strictly opposite signs and 0 otherwise.
C14_CombinedScoreFormula ==
  (frame.called /\ "combined_score" \in DOMAIN frame) =>
    LET bonus == IF frame.compound * frame.polarity < 0
                 THEN Rat(frame.polarity, 10000) ELSE Rat(0, 1)
        weighted == Rat(30 * frame.compound + 15 * frame.polarity, 100000)
    IN  REq(frame.combined_score,
            RAdd(RAdd(RAdd(RAdd(weighted, RMul(frame.sentence_balance, Rat(1, 4))),
                           frame.keyword_adjustment),
                      frame.intensity_adjustment),
                 bonus))

\* the scorers disagree (compound 1.0, polarity -1.0) on a text without
\* keywords or sentences: 0.30 - 0.15 - 0.10 = 0.05
C14_Witness ==
  /\ frame.called
  /\ "combined_score" \in DOMAIN frame
  /\ frame.compound = 1000
  /\ frame.polarity = -1000
  /\ frame.text = <<>>
  /\ frame.sentence_sentiments = <<>>
  /\ frame.combined_score = [n |-> 1, d |-> 20]

\* the call has returned with a combined score strictly between the two
\* thresholds
Borderline(f) ==
  /\ f.called
  /\ "combined_score" \in DOMAIN f
  /\ -8 * f.combined_score.d < 100 * f.combined_score.n
  /\ 100 * f.combined_score.n < 12 * f.combined_score.d

\* C15: whenever combined_score >= 0.12 the label is positive and whenever
\* combined_score <= -0.08 the label is negative, whatever the keyword
\* counts and the sentence counts are.
C15_PrimaryClassification ==
  (frame.called /\ "combined_score" \in DOMAIN frame) =>
    /\ (100 * frame.combined_score.n >= 12 * frame.combined_score.d)
         => frame.sentiment = "positive"
    /\ (100 * frame.combined_score.n <= -8 * frame.combined_score.d)
         => frame.sentiment = "negative"

\* a positive label by the score (0.30 + 0.15 - 0.1 = 0.35) against a
\* negative keyword majority
C15_Witness ==
  /\ frame.called
  /\ "combined_score" \in DOMAIN frame
  /\ frame.combined_score = [n |-> 7, d |-> 20]
  /\ frame.negative_keyword_count > frame.positive_keyword_count
  /\ frame.sentiment = "positive"

\* C16: for -0.08 < combined_score < 0.12, differing keyword counts decide
\* the label by the strictly greater one; with equal counts the label is
\* negative when negative sentences outnumber positive ones and the average
\* negative intensity exceeds 0.3, else positive in the mirrored case, else
\* neutral.
C16_TieBreakCascade ==
  Borderline(frame) =>
    /\ (frame.negative_keyword_count > frame.positive_keyword_count)
         => frame.sentiment = "negative"
    /\ (frame.positive_keyword_count > frame.negative_keyword_count)
         => frame.sentiment = "positive"
    /\ (frame.positive_keyword_count = frame.negative_keyword_count)
         => frame.sentiment =
              IF /\ frame.negative_count > frame.positive_count
                 /\ 10 * frame.avg_negative_intensity.n > 3 * frame.avg_negative_intensity.d
              THEN "negative"
              ELSE IF /\ frame.positive_count > frame.negative_count
                      /\ 10 * frame.avg_positive_intensity.n > 3 * frame.avg_positive_intensity.d
              THEN "positive"
              ELSE "neutral"

\* a borderline call where the negative keyword majority decides against a
\* positive sentence majority of intensity 0.4
C16_Witness ==
  /\ Borderline(frame)
  /\ frame.negative_keyword_count > frame.positive_keyword_count
  /\ frame.positive_count > frame.negative_count
  /\ frame.avg_positive_intensity = [n |-> 2, d |-> 5]
  /\ frame.sentiment = "negative"

\* C17: the confidence is |combined_score|, then min(confidence + 0.2, 1.0)
\* if a keyword count (after the expectation rule) is >= 2, then
\* min(confidence * 1.2, 1.0) if compound, polarity and sentence_balance are
\* all strictly positive or all strictly negative: the additive boost comes
\* first.  The returned confidence is that value rounded to 3 decimals.
C17_ConfidenceBoostOrder ==
  (frame.called /\ "unrounded_confidence" \in DOMAIN frame) =>
    LET base == [n |-> (IF frame.combined_score.n < 0 THEN -frame.combined_score.n
                        ELSE frame.combined_score.n),
                 d |-> frame.combined_score.d]
        keywords == frame.kw.negative_keyword_count >= 2
                    \/ frame.kw.positive_keyword_count >= 2
        agree == \/ /\ frame.compound > 0
                    /\ frame.polarity > 0
                    /\ frame.sentence_balance.n > 0
                 \/ /\ frame.compound < 0
                    /\ frame.polarity < 0
                    /\ frame.sentence_balance.n < 0
        added == IF keywords THEN RMin(RAdd(base, Rat(1, 5)), Rat(1, 1)) ELSE base
        expected == IF agree THEN RMin(RMul(added, Rat(6, 5)), Rat(1, 1)) ELSE added
        off == RSub(Rat(frame.confidence, 1000), expected)
    IN  /\ REq(frame.unrounded_confidence, expected)
        /\ -off.d <= 2000 * off.n
        /\ 2000 * off.n <= off.d

\* both boosts apply and neither clamps: the confidence is
\* (|combined_score| + 0.2) * 1.2 and not |combined_score| * 1.2 + 0.2
C17_Witness ==
  /\ frame.called
  /\ "unrounded_confidence" \in DOMAIN frame
  /\ frame.kw.positive_keyword_count >= 2
  /\ frame.compound > 0
  /\ frame.polarity > 0
  /\ frame.sentence_balance.n > 0
  /\ RLt(frame.unrounded_confidence, Rat(1, 1))
  /\ REq(frame.unrounded_confidence,
         RMul(RAdd(RAbs(frame.combined_score), Rat(1, 5)), Rat(6, 5)))
  /\ ~REq(frame.unrounded_confidence,
          RAdd(RMul(RAbs(frame.combined_score), Rat(6, 5)), Rat(1, 5)))

----------------------------------------------------------------------------
(* Properties of the sentence statistics (checked under SpecIntensity).    *)

\* C18: the intensity adjustment is -0.15*(avg_neg_intensity - 0.5) when
\* avg_neg_intensity > 0.5 with at least 2 negative sentences; otherwise
\* +0.15*(avg_pos_intensity - 0.5) when avg_pos_intensity > 0.5 with at least
\* 2 positive sentences; otherwise 0.  The negative branch wins when both
\* hold, and the adjustment lies in [-0.075, 0.075].
C18_IntensityAdjustment ==
  (frame.called /\ "intensity_adjustment" \in DOMAIN frame) =>
    LET an == frame.avg_negative_intensity
        ap == frame.avg_positive_intensity
        adj == frame.intensity_adjustment
    IN  /\ REq(adj,
               IF 2 * an.n > an.d /\ frame.negative_count >= 2
               THEN [n |-> -15 * (2 * an.n - an.d), d |-> 200 * an.d]
               ELSE IF 2 * ap.n > ap.d /\ frame.positive_count >= 2
               THEN [n |-> 15 * (2 * ap.n - ap.d), d |-> 200 * ap.d]
               ELSE [n |-> 0, d |-> 1])
        /\ -75 * adj.d <= 1000 * adj.n
        /\ 1000 * adj.n <= 75 * adj.d

\* two negative and two positive sentences, both averages above 0.5: the
\* negative branch is taken, at its extreme -0.075
C18_Witness ==
  /\ frame.called
  /\ "intensity_adjustment" \in DOMAIN frame
  /\ frame.negative_count = 2
  /\ frame.positive_count = 2
  /\ frame.avg_positive_intensity = [n |-> 1, d |-> 1]
  /\ frame.avg_negative_intensity = [n |-> 1, d |-> 1]
  /\ frame.intensity_adjustment = [n |-> -3, d |-> 40]

\* the number of records of the frame with the given label
Labelled(f, label) ==
  Cardinality({i \in 1..Len(f.sentence_sentiments) :
                 f.sentence_sentiments[i].sentiment = label})

\* C19: sentence_balance is (pos_count - neg_count)/(pos_count + neg_count)
\* when a sentence is positive or negative and 0 otherwise; the average
\* intensity of an empty bucket is 0; sentence_balance lies in [-1, 1] for
\* every sentence-record sequence.
C19_SentenceBalanceGuarded ==
  (frame.called /\ "sentence_balance" \in DOMAIN frame) =>
    LET pos == Labelled(frame, "positive")
        neg == Labelled(frame, "negative")
        bal == frame.sentence_balance
    IN  /\ (pos + neg > 0) => bal.n * (pos + neg) = (pos - neg) * bal.d
        /\ (pos + neg = 0) => bal.n = 0
        /\ (neg = 0) => frame.avg_negative_intensity.n = 0
        /\ (pos = 0) => frame.avg_positive_intensity.n = 0
        /\ bal.d > 0
        /\ -bal.d <= bal.n
        /\ bal.n <= bal.d

\* a call on three neutral sentences: no denominator, balance and both
\* averages 0
C19_Witness ==
  /\ frame.called
  /\ "sentence_balance" \in DOMAIN frame
  /\ Len(frame.sentence_sentiments) = 3
  /\ Labelled(frame, "neutral") = 3
  /\ frame.sentence_balance.n = 0
  /\ frame.avg_negative_intensity.n = 0
  /\ frame.avg_positive_intensity.n = 0

----------------------------------------------------------------------------
(* Properties of preprocess_text (checked under SpecPreprocess).           *)

\* the characters of the tokens, in order
RECURSIVE Flatten(_)
Flatten(tokens) ==
  IF tokens = <<>> THEN <<>> ELSE Head(tokens) \o Flatten(Tail(tokens))

\* C20: preprocess_text lowercases, strips URLs, strips e-mails, strips
\* characters outside letters, whitespace and ! ? ., collapses whitespace,
\* tokenizes, filters and lemmatizes, in that order: the cleaned text has
\* only lowercase letters, single spaces and ! ? .; every processed token
\* comes, in order, from a token of the cleaned text that is longer than 2
\* characters and no stopword; empty input gives no token and "".
C20_PreprocessSteps ==
  (frame.called /\ "text_cleaned" \in DOMAIN frame) =>
    LET cleaned == frame.text_cleaned
        kept == SelectSeq(frame.tokens,
                          LAMBDA t : Len(t) > 2 /\ t \notin stop_words)
    IN  /\ cleaned =
             Join(Split(RemoveSpecial(RemoveEmails(RemoveURLs(frame.text_lower, 1), 1))))
        /\ \A i \in 1..Len(frame.text_lower) :
             \A k \in 1..Len(Uppers) : frame.text_lower[i] # Uppers[k]
        /\ \A i \in 1..Len(cleaned) :
             \/ \E k \in 1..Len(Lowers) : cleaned[i] = Lowers[k]
             \/ cleaned[i] \in {" ", "!", "?", "."}
        /\ \A i \in 1..(Len(cleaned) - 1) : ~(cleaned[i] = " " /\ cleaned[i + 1] = " ")
        /\ cleaned # <<>> => (cleaned[1] # " " /\ cleaned[Len(cleaned)] # " ")
        /\ Flatten(frame.tokens) = SelectSeq(cleaned, LAMBDA c : c # " ")
        /\ Len(frame.processed_tokens) = Len(kept)
        /\ \A i \in 1..Len(kept) :
             frame.processed_tokens[i] =
               (IF kept[i] \in DOMAIN lemmatizer THEN lemmatizer[kept[i]] ELSE kept[i])
        /\ frame.text = <<>> =>
             (frame.processed_tokens = <<>> /\ cleaned = <<>>)

\* "Films Mail a@B.c The ": the address goes as a whole, "the" is a
\* stopword, "films" is lemmatized
C20_Witness ==
  /\ frame.called
  /\ "text_cleaned" \in DOMAIN frame
  /\ frame.text = TextFrags[2] \o TextFrags[6] \o TextFrags[1]
  /\ frame.text_cleaned = <<"f","i","l","m","s"," ","m","a","i","l"," ","t","h","e">>
  /\ frame.processed_tokens = << <<"f","i","l","m">>, <<"m","a","i","l">> >>

----------------------------------------------------------------------------
(* Properties of the label against the keyword counts and the combined     *)
(* score.                                                                  *)

\* C21: the neutral label is returned only when the negative and the
\* positive keyword counts, taken after the expectation rule, are equal;
\* whenever the two counts differ the label is positive or negative, for
\* every compound, polarity and sentence-record input.
C21_NeutralOnlyOnEqualKeywords ==
  frame.called =>
    /\ frame.sentiment = "neutral"
         => frame.negative_keyword_count = frame.positive_keyword_count
    /\ frame.negative_keyword_count # frame.positive_keyword_count
         => frame.sentiment \in {"positive", "negative"}

\* one strong-negative phrase and no strong-positive one, a combined score
\* inside the tie-break band and no sentence record: the keyword majority of
\* one alone makes the label negative
C21_Witness ==
  /\ frame.called
  /\ frame.negative_keyword_count = 1
  /\ frame.positive_keyword_count = 0
  /\ ~frame.kw.expectation_adjusted
  /\ frame.sentence_sentiments = <<>>
  /\ RLt(Rat(-8, 100), frame.combined_score)
  /\ RLt(frame.combined_score, Rat(12, 100))
  /\ frame.sentiment = "negative"

\* C22: the label is bounded by the combined score: a positive label
\* implies combined_score > -0.08, a negative label implies
\* combined_score < 0.12 and a neutral label implies
\* -0.08 < combined_score < 0.12.  Inside the band the tie-break may give a
\* label whose sign is opposite to that of the score; the confidence is
\* still computed from |combined_score|: without a boost it is
\* round(|combined_score|, 3), and it is never below min(|combined_score|, 1).
C22_LabelBoundedByScore ==
  (frame.called /\ "combined_score" \in DOMAIN frame) =>
    /\ frame.sentiment = "positive" => RLt(Rat(-8, 100), frame.combined_score)
    /\ frame.sentiment = "negative" => RLt(frame.combined_score, Rat(12, 100))
    /\ frame.sentiment = "neutral" =>
         /\ RLt(Rat(-8, 100), frame.combined_score)
         /\ RLt(frame.combined_score, Rat(12, 100))
    /\ RLe(RMin(RAbs(frame.combined_score), One), frame.unrounded_confidence)
    /\ NoBoost(frame) =>
         /\ frame.unrounded_confidence = RAbs(frame.combined_score)
         /\ frame.confidence = Round3(RAbs(frame.combined_score))

\* a positive label with a negative combined score: one strong-positive
\* phrase, compound 0 and polarity -0.8 give -0.12 + 0.1 = -0.02, and the
\* confidence is 0.02
C22_Witness ==
  /\ frame.called
  /\ "combined_score" \in DOMAIN frame
  /\ frame.sentiment = "positive"
  /\ frame.combined_score = [n |-> -1, d |-> 50]
  /\ frame.positive_keyword_count > frame.negative_keyword_count
  /\ frame.confidence = 20

\* the mirrored case: a negative label with a positive combined score, by
\* one strong-negative phrase with compound 0.4 (0.12 - 0.1 = 0.02)
NegativeLabelPositiveScore ==
  /\ frame.called
  /\ "combined_score" \in DOMAIN frame
  /\ frame.sentiment = "negative"
  /\ frame.combined_score = [n |-> 1, d |-> 50]
  /\ frame.negative_keyword_count > frame.positive_keyword_count
  /\ frame.confidence = 20

----------------------------------------------------------------------------
(* Properties of the expectation rule (checked under SpecExpectation).     *)

\* C23: whenever the expectation rule fires, the text holds the
\* strong-negative phrase "disappointment" and the rule adds 1, so the final
\* negative keyword count is at least 2; the additive confidence boost then
\* applies, and the returned confidence is at least 0.2.
C23_ExpectationBoostsConfidence ==
  (frame.called /\ frame.kw.expectation_adjusted) =>
    /\ frame.kw.raw_negative >= 1
    /\ frame.negative_keyword_count = frame.kw.raw_negative + 1
    /\ frame.negative_keyword_count >= 2
    /\ RLe(RMin(RAdd(RAbs(frame.combined_score), Rat(2, 10)), One),
           frame.unrounded_confidence)
    /\ RLe(Rat(2, 10), frame.unrounded_confidence)
    /\ frame.confidence >= 200

\* the rule fires on a text whose only strong-negative phrase is
\* "disappointment", the combined score is 0.3 - 0.06 - 0.04 - 0.2 = 0, and
\* the returned confidence is 0.2, all of it from the boost
C23_Witness ==
  /\ frame.called
  /\ frame.kw.expectation_adjusted
  /\ frame.kw.raw_negative = 1
  /\ frame.negative_keyword_count = 2
  /\ frame.combined_score = Zero
  /\ frame.confidence = 200

====
